---- MODULE Spec2Model ----
(***************************************************************************)
(* Boolean transformational prover: expression AST, the rewrite-rule       *)
(* catalogue, the rewrite driver and the bounded breadth-first proof       *)
(* search (src/src/logic).                                                 *)
(***************************************************************************)
EXTENDS Integers, Sequences, FiniteSets, TLC

VARIABLES
  pc,               \* position of the running operation
  expr,             \* rule check: the expression handed to a rule
  expr2,            \* hash check: the second expression of a pair
  applied,          \* rule check / hash check: what the operation returned
  inputTokens,      \* parser check: the Token[] handed to the parser
  inputAssignment,  \* evaluator check: the Assignment handed to evaluate
  startExpression,  \* findTransformationProof: argument
  targetExpression, \* findTransformationProof: argument
  opts,             \* findTransformationProof: options after defaults
  queue,            \* findTransformationProof: const queue
  visited,          \* findTransformationProof: const visited
  statesExplored,   \* findTransformationProof: let statesExplored
  maxDepthReached,  \* findTransformationProof: let maxDepthReached
  result,           \* findTransformationProof: the returned TransformationProof
  calls,            \* number of findTransformationProof calls made so far
  prevResult,       \* the result of the previous call with the same arguments
  aborted,          \* the caller's AbortController signal (ProofView)
  store,            \* app store: the state held by useAppStore
  timers,           \* app store: the setTimeout callbacks not yet finished
  proofClosure      \* app store: the closure whose search gave currentProof

vars == <<pc, expr, expr2, applied, inputTokens, inputAssignment,
          startExpression, targetExpression, opts,
          queue, visited, statesExplored, maxDepthReached, result, calls,
          prevResult, aborted, store, timers, proofClosure>>

searchVars == <<startExpression, targetExpression, opts, queue, visited,
                statesExplored, maxDepthReached, result, calls, prevResult,
                aborted>>

ruleVars == <<expr, expr2, applied, inputTokens, inputAssignment>>

storeVars == <<store, timers, proofClosure>>

----------------------------------------------------------------------------
(* Expressions (expressions.ts).  An expression is a record tagged with    *)
(* its class; the fields carry the source's names.                         *)

Variable(n) == [kind |-> "Variable", name |-> n]

Negation(e) == [kind |-> "Negation", expression |-> e]

Conjunction(l, r) == [kind |-> "Conjunction", left |-> l, right |-> r]

Disjunction(l, r) == [kind |-> "Disjunction", left |-> l, right |-> r]

Implication(l, r) == [kind |-> "Implication", left |-> l, right |-> r]

Biconditional(l, r) == [kind |-> "Biconditional", left |-> l, right |-> r]

TrueConstant == [kind |-> "TrueConstant"]

FalseConstant == [kind |-> "FalseConstant"]

\* The value of a property that an object does not have.
Undefined == [kind |-> "undefined"]

\* The outcome of a call that raised an Error instead of returning.
Thrown == [kind |-> "Error"]

BinaryKinds == {"Conjunction", "Disjunction", "Implication", "Biconditional"}

isVariable(e) == e.kind = "Variable"

isNegation(e) == e.kind = "Negation"

isConjunction(e) == e.kind = "Conjunction"

isDisjunction(e) == e.kind = "Disjunction"

isImplication(e) == e.kind = "Implication"

isBiconditional(e) == e.kind = "Biconditional"

isTrueConstant(e) == e.kind = "TrueConstant"

isFalseConstant(e) == e.kind = "FalseConstant"

isBinaryOperation(e) == e.kind \in BinaryKinds

\* Property reads as the language performs them: absent property -> undefined.
LeftOf(e) == IF isBinaryOperation(e) THEN e.left ELSE Undefined

RightOf(e) == IF isBinaryOperation(e) THEN e.right ELSE Undefined

RECURSIVE Equals(_, _)
Equals(this, other) ==
  CASE isVariable(this) -> isVariable(other) /\ this.name = other.name
    [] isNegation(this) ->
         isNegation(other) /\ Equals(this.expression, other.expression)
    [] isBinaryOperation(this) ->
         /\ other.kind = this.kind
         /\ isBinaryOperation(other)
         /\ Equals(this.left, other.left)
         /\ Equals(this.right, other.right)
    [] isTrueConstant(this) -> isTrueConstant(other)
    [] isFalseConstant(this) -> isFalseConstant(other)
    [] OTHER -> FALSE

RECURSIVE getLength(_)
getLength(e) ==
  CASE isNegation(e) -> getLength(e.expression) + 1
    [] isBinaryOperation(e) -> getLength(e.left) + getLength(e.right) + 1
    [] OTHER -> 1

RECURSIVE getVariables(_)
getVariables(e) ==
  CASE isVariable(e) -> {e.name}
    [] isNegation(e) -> getVariables(e.expression)
    [] isBinaryOperation(e) -> getVariables(e.left) \cup getVariables(e.right)
    [] OTHER -> {}

getOperatorName(e) ==
  CASE isConjunction(e) -> "AND"
    [] isDisjunction(e) -> "OR"
    [] isImplication(e) -> "IMP"
    [] isBiconditional(e) -> "IFF"

\* A hash that leaves the operator name out of a binary operation's hash.
RECURSIVE getHashNoOperator(_)
getHashNoOperator(e) ==
  CASE isVariable(e) -> "VAR(" \o e.name \o ")"
    [] isNegation(e) -> "NOT(" \o getHashNoOperator(e.expression) \o ")"
    [] isBinaryOperation(e) ->
         "(" \o getHashNoOperator(e.left) \o ", "
             \o getHashNoOperator(e.right) \o ")"
    [] isTrueConstant(e) -> "TRUE"
    [] isFalseConstant(e) -> "FALSE"

RECURSIVE getHash(_)
getHash(e) ==
  CASE isVariable(e) -> "VAR(" \o e.name \o ")"
    [] isNegation(e) -> "NOT(" \o getHash(e.expression) \o ")"
    [] isBinaryOperation(e) ->
         getOperatorName(e) \o "(" \o getHash(e.left) \o ", "
                            \o getHash(e.right) \o ")"
    [] isTrueConstant(e) -> "TRUE"
    [] isFalseConstant(e) -> "FALSE"

\* evaluate under an assignment (a function from variable names to BOOLEAN)
\* that covers the expression's variables.
RECURSIVE evaluate(_, _)
evaluate(e, assignment) ==
  CASE isVariable(e) -> assignment[e.name]
    [] isNegation(e) -> ~evaluate(e.expression, assignment)
    [] isConjunction(e) ->
         evaluate(e.left, assignment) /\ evaluate(e.right, assignment)
    [] isDisjunction(e) ->
         evaluate(e.left, assignment) \/ evaluate(e.right, assignment)
    [] isImplication(e) ->
         ~evaluate(e.left, assignment) \/ evaluate(e.right, assignment)
    [] isBiconditional(e) ->
         LET leftVal == evaluate(e.left, assignment)
             rightVal == evaluate(e.right, assignment)
         IN (leftVal /\ rightVal) \/ (~leftVal /\ ~rightVal)
    [] isTrueConstant(e) -> TRUE
    [] isFalseConstant(e) -> FALSE

\* Rebuilds the operation with its operands exchanged.
createBinaryOperationSwapped(originalExpression, left, right) ==
  [kind |-> originalExpression.kind, left |-> right, right |-> left]

createBinaryOperation(originalExpression, left, right) ==
  [kind |-> originalExpression.kind, left |-> left, right |-> right]

----------------------------------------------------------------------------
(* The rule catalogue (rules.ts).  For each class, <Class>_canApply and    *)
(* <Class>_apply; apply returns the new expression, or Thrown when the     *)
(* method raises.                                                          *)

CommutativityAND_canApply(e) == isConjunction(e)

CommutativityAND_apply(e) ==
  IF ~isConjunction(e) THEN Thrown ELSE Conjunction(e.right, e.left)

CommutativityOR_canApply(e) == isDisjunction(e)

CommutativityOR_apply(e) ==
  IF ~isDisjunction(e) THEN Thrown ELSE Disjunction(e.right, e.left)

CommutativityIFF_canApply(e) == isBiconditional(e)

CommutativityIFF_apply(e) ==
  IF ~isBiconditional(e) THEN Thrown ELSE Biconditional(e.right, e.left)

DoubleNegation_canApply(e) == isNegation(e) /\ isNegation(e.expression)

DoubleNegation_apply(e) ==
  IF ~isNegation(e) \/ ~isNegation(e.expression)
  THEN Thrown
  ELSE e.expression.expression

ExcludedMiddle_canApply(e) ==
  IF ~isDisjunction(e) THEN FALSE
  ELSE IF isNegation(e.right) THEN Equals(e.left, e.right.expression)
  ELSE IF isNegation(e.left) THEN Equals(e.right, e.left.expression)
  ELSE FALSE

ExcludedMiddle_apply(e) ==
  IF ~ExcludedMiddle_canApply(e) THEN Thrown ELSE TrueConstant

Contradiction_canApply(e) ==
  IF ~isConjunction(e) THEN FALSE
  ELSE IF isNegation(e.right) THEN Equals(e.left, e.right.expression)
  ELSE IF isNegation(e.left) THEN Equals(e.right, e.left.expression)
  ELSE FALSE

Contradiction_apply(e) ==
  IF ~Contradiction_canApply(e) THEN Thrown ELSE FalseConstant

DeMorganAND_canApply(e) == isNegation(e) /\ isConjunction(e.expression)

DeMorganAND_apply(e) ==
  IF ~isNegation(e) \/ ~isConjunction(e.expression)
  THEN Thrown
  ELSE LET inner == e.expression
       IN Disjunction(Negation(inner.left), Negation(inner.right))

DeMorganOR_canApply(e) == isNegation(e) /\ isDisjunction(e.expression)

DeMorganOR_apply(e) ==
  IF ~isNegation(e) \/ ~isDisjunction(e.expression)
  THEN Thrown
  ELSE LET inner == e.expression
       IN Conjunction(Negation(inner.left), Negation(inner.right))

DeMorganANDReverse_canApply(e) ==
  isDisjunction(e) /\ isNegation(e.left) /\ isNegation(e.right)

DeMorganANDReverse_apply(e) ==
  IF ~isDisjunction(e) \/ ~isNegation(e.left) \/ ~isNegation(e.right)
  THEN Thrown
  ELSE Negation(Conjunction(e.left.expression, e.right.expression))

DeMorganORReverse_canApply(e) ==
  isConjunction(e) /\ isNegation(e.left) /\ isNegation(e.right)

DeMorganORReverse_apply(e) ==
  IF ~isConjunction(e) \/ ~isNegation(e.left) \/ ~isNegation(e.right)
  THEN Thrown
  ELSE Negation(Disjunction(e.left.expression, e.right.expression))

ImplicationElimination_canApply(e) == isImplication(e)

ImplicationElimination_apply(e) ==
  IF ~isImplication(e) THEN Thrown
  ELSE Disjunction(Negation(e.left), e.right)

ImplicationEliminationReverse_canApply(e) ==
  isDisjunction(e) /\ isNegation(e.left)

ImplicationEliminationReverse_apply(e) ==
  IF ~isDisjunction(e) \/ ~isNegation(e.left) THEN Thrown
  ELSE Implication(e.left.expression, e.right)

DistributivityAND_canApply(e) == isConjunction(e) /\ isDisjunction(e.right)

DistributivityAND_apply(e) ==
  IF ~isConjunction(e) \/ ~isDisjunction(e.right) THEN Thrown
  ELSE LET P == e.left
           QorR == e.right
       IN Disjunction(Conjunction(P, QorR.left), Conjunction(P, QorR.right))

DistributivityOR_canApply(e) == isDisjunction(e) /\ isConjunction(e.right)

DistributivityOR_apply(e) ==
  IF ~isDisjunction(e) \/ ~isConjunction(e.right) THEN Thrown
  ELSE LET P == e.left
           QandR == e.right
       IN Conjunction(Disjunction(P, QandR.left), Disjunction(P, QandR.right))

CommutativityANDAND_canApply(e) == isConjunction(e) /\ isConjunction(e.left)

CommutativityANDAND_apply(e) ==
  IF ~isConjunction(e) \/ ~isConjunction(e.left) THEN Thrown
  ELSE LET left == e.left
       IN Conjunction(left.right, Conjunction(left.left, e.right))

CommutativityOROR_canApply(e) == isDisjunction(e) /\ isDisjunction(e.left)

CommutativityOROR_apply(e) ==
  IF ~isDisjunction(e) \/ ~isDisjunction(e.left) THEN Thrown
  ELSE LET left == e.left
       IN Disjunction(left.right, Disjunction(left.left, e.right))

\* Accepts any disjunction of two conjunctions, shared operand or not.
DistributivityANDReverse_canApplyAnyLeft(e) ==
  isDisjunction(e) /\ isConjunction(e.left) /\ isConjunction(e.right)

DistributivityANDReverse_canApply(e) ==
  IF ~isDisjunction(e) THEN FALSE
  ELSE LET left == e.left
           right == e.right
       IN isConjunction(left) /\ isConjunction(right)
          /\ Equals(left.left, right.left)

\* apply only tests the root; the operands' properties are read unchecked.
DistributivityANDReverse_apply(e) ==
  IF ~isDisjunction(e) THEN Thrown
  ELSE LET left == e.left
           right == e.right
       IN Conjunction(LeftOf(left), Disjunction(RightOf(left), RightOf(right)))

DistributivityORReverse_canApply(e) ==
  IF ~isConjunction(e) THEN FALSE
  ELSE LET left == e.left
           right == e.right
       IN isDisjunction(left) /\ isDisjunction(right)
          /\ Equals(left.left, right.left)

DistributivityORReverse_apply(e) ==
  IF ~isConjunction(e) THEN Thrown
  ELSE LET left == e.left
           right == e.right
       IN Disjunction(LeftOf(left), Conjunction(RightOf(left), RightOf(right)))

Contrapositive_canApply(e) ==
  IF ~isImplication(e) THEN FALSE
  ELSE ~(isNegation(e.left) /\ isNegation(e.right))

Contrapositive_apply(e) ==
  IF ~isImplication(e) THEN Thrown
  ELSE Implication(Negation(e.right), Negation(e.left))

Idempotence_canApply(e) ==
  (isConjunction(e) \/ isDisjunction(e)) /\ Equals(e.left, e.right)

Idempotence_apply(e) ==
  IF ~isBinaryOperation(e) THEN Thrown
  ELSE IF ~Equals(e.left, e.right) THEN Thrown
  ELSE e.left

IdempotenceReverseOR_canApply(e) ==
  /\ ~(isDisjunction(e) /\ Equals(e.left, e.right))
  /\ ~(isConjunction(e) /\ Equals(e.left, e.right))

\* An apply that brings in a variable of its own.
IdempotenceReverseOR_applyFresh(e) == Disjunction(e, Variable("b"))

IdempotenceReverseOR_apply(e) == Disjunction(e, e)

IdempotenceReverseAND_canApply(e) ==
  /\ ~(isDisjunction(e) /\ Equals(e.left, e.right))
  /\ ~(isConjunction(e) /\ Equals(e.left, e.right))

IdempotenceReverseAND_apply(e) == Conjunction(e, e)

Equivalence_canApply(e) == isBiconditional(e)

Equivalence_apply(e) ==
  IF ~isBiconditional(e) THEN Thrown
  ELSE Conjunction(Implication(e.left, e.right), Implication(e.right, e.left))

EquivalenceReverse_canApply(e) ==
  IF ~isConjunction(e) THEN FALSE
  ELSE LET left == e.left
           right == e.right
       IN /\ isImplication(left)
          /\ isImplication(right)
          /\ Equals(left.left, right.right)
          /\ Equals(left.right, right.left)

EquivalenceReverse_apply(e) ==
  IF ~isConjunction(e) THEN Thrown
  ELSE LET left == e.left
       IN Biconditional(LeftOf(left), RightOf(left))

SimplificationWithTrue_canApply(e) ==
  IF isConjunction(e) THEN isTrueConstant(e.left) \/ isTrueConstant(e.right)
  ELSE IF isDisjunction(e)
       THEN isFalseConstant(e.left) \/ isFalseConstant(e.right)
  ELSE FALSE

SimplificationWithTrue_apply(e) ==
  IF isConjunction(e) /\ isTrueConstant(e.left) THEN e.right
  ELSE IF isConjunction(e) /\ isTrueConstant(e.right) THEN e.left
  ELSE IF isDisjunction(e) /\ isFalseConstant(e.left) THEN e.right
  ELSE IF isDisjunction(e) /\ isFalseConstant(e.right) THEN e.left
  ELSE Thrown

SimplificationWithFalse_canApply(e) ==
  IF isDisjunction(e) THEN isTrueConstant(e.left) \/ isTrueConstant(e.right)
  ELSE IF isConjunction(e)
       THEN isFalseConstant(e.left) \/ isFalseConstant(e.right)
  ELSE FALSE

SimplificationWithFalse_apply(e) ==
  IF isDisjunction(e) THEN TrueConstant
  ELSE IF isConjunction(e) THEN FalseConstant
  ELSE Thrown

Simplification1AndReverse_canApply(e) ==
  /\ ~(isConjunction(e) /\ (isTrueConstant(e.left) \/ isTrueConstant(e.right)))
  /\ ~(isDisjunction(e) /\ (isFalseConstant(e.left) \/ isFalseConstant(e.right)))

Simplification1AndReverse_apply(e) == Conjunction(e, TrueConstant)

Simplification1OrReverse_canApply(e) ==
  /\ ~(isConjunction(e) /\ (isTrueConstant(e.left) \/ isTrueConstant(e.right)))
  /\ ~(isDisjunction(e) /\ (isFalseConstant(e.left) \/ isFalseConstant(e.right)))

Simplification1OrReverse_apply(e) == Disjunction(e, FalseConstant)

Simplification1True_canApply(e) ==
  isDisjunction(e) /\ (isTrueConstant(e.left) \/ isTrueConstant(e.right))

Simplification1True_apply(e) == TrueConstant

Simplification1False_canApply(e) ==
  isConjunction(e) /\ (isFalseConstant(e.left) \/ isFalseConstant(e.right))

Simplification1False_apply(e) == FalseConstant

Simplification2Or_canApply(e) ==
  IF ~isDisjunction(e) THEN FALSE
  ELSE LET left == e.left
           right == e.right
       IN IF isConjunction(right)
          THEN Equals(left, right.left) \/ Equals(left, right.right)
          ELSE IF isConjunction(left)
          THEN Equals(right, left.left) \/ Equals(right, left.right)
          ELSE FALSE

\* An apply that returns the other operand of the inner conjunction.
Simplification2Or_applyOther(e) ==
  IF ~isDisjunction(e) THEN Thrown
  ELSE IF isConjunction(e.right) THEN e.right.right
  ELSE IF isConjunction(e.left) THEN e.left.right
  ELSE e.right

Simplification2Or_apply(e) ==
  IF ~isDisjunction(e) THEN Thrown
  ELSE IF isConjunction(e.right) THEN e.left ELSE e.right

Simplification2And_canApply(e) ==
  IF ~isConjunction(e) THEN FALSE
  ELSE LET left == e.left
           right == e.right
       IN IF isDisjunction(right)
          THEN Equals(left, right.left) \/ Equals(left, right.right)
          ELSE IF isDisjunction(left)
          THEN Equals(right, left.left) \/ Equals(right, left.right)
          ELSE FALSE

Simplification2And_apply(e) ==
  IF ~isConjunction(e) THEN Thrown
  ELSE IF isDisjunction(e.right) THEN e.left ELSE e.right

\* The catalogue, in the order of the exported array; a rule is named by
\* its class.
ALL_TRANSFORMATION_RULES ==
  << "CommutativityAND", "CommutativityOR", "CommutativityIFF",
     "CommutativityANDAND", "CommutativityOROR",
     "DoubleNegation",
     "ExcludedMiddle", "Contradiction",
     "DeMorganAND", "DeMorganOR", "DeMorganANDReverse", "DeMorganORReverse",
     "ImplicationElimination", "ImplicationEliminationReverse",
     "Contrapositive",
     "DistributivityAND", "DistributivityOR",
     "DistributivityANDReverse", "DistributivityORReverse",
     "Idempotence", "IdempotenceReverseOR", "IdempotenceReverseAND",
     "Equivalence", "EquivalenceReverse",
     "SimplificationWithTrue", "SimplificationWithFalse",
     "Simplification1AndReverse", "Simplification1OrReverse",
     "Simplification1True", "Simplification1False",
     "Simplification2Or", "Simplification2And" >>

RuleNames == {ALL_TRANSFORMATION_RULES[i] : i \in DOMAIN ALL_TRANSFORMATION_RULES}

\* rule.canApply(e), dispatched on the rule's class.
canApply(rule, e) ==
  CASE rule = "CommutativityAND" -> CommutativityAND_canApply(e)
    [] rule = "CommutativityOR" -> CommutativityOR_canApply(e)
    [] rule = "CommutativityIFF" -> CommutativityIFF_canApply(e)
    [] rule = "CommutativityANDAND" -> CommutativityANDAND_canApply(e)
    [] rule = "CommutativityOROR" -> CommutativityOROR_canApply(e)
    [] rule = "DoubleNegation" -> DoubleNegation_canApply(e)
    [] rule = "ExcludedMiddle" -> ExcludedMiddle_canApply(e)
    [] rule = "Contradiction" -> Contradiction_canApply(e)
    [] rule = "DeMorganAND" -> DeMorganAND_canApply(e)
    [] rule = "DeMorganOR" -> DeMorganOR_canApply(e)
    [] rule = "DeMorganANDReverse" -> DeMorganANDReverse_canApply(e)
    [] rule = "DeMorganORReverse" -> DeMorganORReverse_canApply(e)
    [] rule = "ImplicationElimination" -> ImplicationElimination_canApply(e)
    [] rule = "ImplicationEliminationReverse" ->
         ImplicationEliminationReverse_canApply(e)
    [] rule = "Contrapositive" -> Contrapositive_canApply(e)
    [] rule = "DistributivityAND" -> DistributivityAND_canApply(e)
    [] rule = "DistributivityOR" -> DistributivityOR_canApply(e)
    [] rule = "DistributivityANDReverse" -> DistributivityANDReverse_canApply(e)
    [] rule = "DistributivityORReverse" -> DistributivityORReverse_canApply(e)
    [] rule = "Idempotence" -> Idempotence_canApply(e)
    [] rule = "IdempotenceReverseOR" -> IdempotenceReverseOR_canApply(e)
    [] rule = "IdempotenceReverseAND" -> IdempotenceReverseAND_canApply(e)
    [] rule = "Equivalence" -> Equivalence_canApply(e)
    [] rule = "EquivalenceReverse" -> EquivalenceReverse_canApply(e)
    [] rule = "SimplificationWithTrue" -> SimplificationWithTrue_canApply(e)
    [] rule = "SimplificationWithFalse" -> SimplificationWithFalse_canApply(e)
    [] rule = "Simplification1AndReverse" ->
         Simplification1AndReverse_canApply(e)
    [] rule = "Simplification1OrReverse" -> Simplification1OrReverse_canApply(e)
    [] rule = "Simplification1True" -> Simplification1True_canApply(e)
    [] rule = "Simplification1False" -> Simplification1False_canApply(e)
    [] rule = "Simplification2Or" -> Simplification2Or_canApply(e)
    [] rule = "Simplification2And" -> Simplification2And_canApply(e)

\* rule.apply(e), dispatched on the rule's class.
apply(rule, e) ==
  CASE rule = "CommutativityAND" -> CommutativityAND_apply(e)
    [] rule = "CommutativityOR" -> CommutativityOR_apply(e)
    [] rule = "CommutativityIFF" -> CommutativityIFF_apply(e)
    [] rule = "CommutativityANDAND" -> CommutativityANDAND_apply(e)
    [] rule = "CommutativityOROR" -> CommutativityOROR_apply(e)
    [] rule = "DoubleNegation" -> DoubleNegation_apply(e)
    [] rule = "ExcludedMiddle" -> ExcludedMiddle_apply(e)
    [] rule = "Contradiction" -> Contradiction_apply(e)
    [] rule = "DeMorganAND" -> DeMorganAND_apply(e)
    [] rule = "DeMorganOR" -> DeMorganOR_apply(e)
    [] rule = "DeMorganANDReverse" -> DeMorganANDReverse_apply(e)
    [] rule = "DeMorganORReverse" -> DeMorganORReverse_apply(e)
    [] rule = "ImplicationElimination" -> ImplicationElimination_apply(e)
    [] rule = "ImplicationEliminationReverse" ->
         ImplicationEliminationReverse_apply(e)
    [] rule = "Contrapositive" -> Contrapositive_apply(e)
    [] rule = "DistributivityAND" -> DistributivityAND_apply(e)
    [] rule = "DistributivityOR" -> DistributivityOR_apply(e)
    [] rule = "DistributivityANDReverse" -> DistributivityANDReverse_apply(e)
    [] rule = "DistributivityORReverse" -> DistributivityORReverse_apply(e)
    [] rule = "Idempotence" -> Idempotence_apply(e)
    [] rule = "IdempotenceReverseOR" -> IdempotenceReverseOR_apply(e)
    [] rule = "IdempotenceReverseAND" -> IdempotenceReverseAND_apply(e)
    [] rule = "Equivalence" -> Equivalence_apply(e)
    [] rule = "EquivalenceReverse" -> EquivalenceReverse_apply(e)
    [] rule = "SimplificationWithTrue" -> SimplificationWithTrue_apply(e)
    [] rule = "SimplificationWithFalse" -> SimplificationWithFalse_apply(e)
    [] rule = "Simplification1AndReverse" -> Simplification1AndReverse_apply(e)
    [] rule = "Simplification1OrReverse" -> Simplification1OrReverse_apply(e)
    [] rule = "Simplification1True" -> Simplification1True_apply(e)
    [] rule = "Simplification1False" -> Simplification1False_apply(e)
    [] rule = "Simplification2Or" -> Simplification2Or_apply(e)
    [] rule = "Simplification2And" -> Simplification2And_apply(e)

----------------------------------------------------------------------------
(* Inputs of the checks of the pure operations.                            *)

NumVariables == 2

MaxHashSize == 3

VarNames == <<"a", "b", "c", "d">>

Vars == {VarNames[i] : i \in 1..NumVariables}

BinaryOf(S1, S2) ==
  {[kind |-> k, left |-> l, right |-> r] : k \in BinaryKinds, l \in S1, r \in S2}

Atoms == {Variable(n) : n \in Vars} \cup {TrueConstant, FalseConstant}

\* Expressions of nesting depth at most 1.
Shallow == Atoms \cup {Negation(e) : e \in Atoms} \cup BinaryOf(Atoms, Atoms)

\* Expressions of nesting depth at most 2 handed to the rules.
RuleInputs ==
  Shallow \cup {Negation(e) : e \in Shallow} \cup BinaryOf(Shallow, Shallow)

\* All expressions of size at most n.
RECURSIVE ExprsOfSize(_)
ExprsOfSize(n) ==
  IF n <= 0 THEN {}
  ELSE IF n = 1 THEN Atoms
  ELSE {Negation(e) : e \in ExprsOfSize(n - 1)}
       \cup UNION {BinaryOf(ExprsOfSize(i), ExprsOfSize(n - 1 - i)) : i \in 1..(n - 2)}

ExprsUpTo(n) == UNION {ExprsOfSize(i) : i \in 1..n}

NoApplication == [rule |-> "none", canApply |-> FALSE, out |-> Undefined]

\* No token list and no assignment: the parser and the evaluator are not used.
NoInput == inputTokens = <<>> /\ inputAssignment = <<>>

\* No app store: the logic module is used on its own.
NoStore == store = Undefined /\ timers = <<>> /\ proofClosure = Undefined

NoSearch ==
  /\ NoStore
  /\ startExpression = Undefined
  /\ targetExpression = Undefined
  /\ opts = [maxDepth |-> 0, maxStates |-> 0, maxExpressionLength |-> 0,
             rules |-> <<>>, onProgress |-> FALSE]
  /\ queue = <<>>
  /\ visited = {}
  /\ statesExplored = 0
  /\ maxDepthReached = 0
  /\ result = Undefined
  /\ calls = 0
  /\ prevResult = Undefined
  /\ aborted = FALSE

InitRules ==
  /\ pc = "rule"
  /\ expr \in RuleInputs
  /\ expr2 = Undefined
  /\ applied = NoApplication
  /\ NoInput
  /\ NoSearch

\* One call of rule.canApply(expr) followed by rule.apply(expr).
ApplyRule(rule) ==
  /\ pc = "rule"
  /\ applied' = [rule |-> rule, canApply |-> canApply(rule, expr),
                 out |-> apply(rule, expr)]
  /\ pc' = "applied"
  /\ UNCHANGED <<expr, expr2, inputTokens, inputAssignment, searchVars, storeVars>>

NextRules == \E rule \in RuleNames : ApplyRule(rule)

SpecRules == InitRules /\ [][NextRules]_vars

InitHash ==
  /\ pc = "hash"
  /\ expr \in ExprsUpTo(MaxHashSize)
  /\ expr2 \in ExprsUpTo(MaxHashSize)
  /\ applied = [equals |-> FALSE, hash1 |-> "", hash2 |-> ""]
  /\ NoInput
  /\ NoSearch

\* expr.equals(expr2) next to the two getHash() strings.
CompareHash ==
  /\ pc = "hash"
  /\ applied' = [equals |-> Equals(expr, expr2), hash1 |-> getHash(expr),
                 hash2 |-> getHash(expr2)]
  /\ pc' = "hashed"
  /\ UNCHANGED <<expr, expr2, inputTokens, inputAssignment, searchVars, storeVars>>

NextHash == CompareHash

SpecHash == InitHash /\ [][NextHash]_vars

----------------------------------------------------------------------------
(* The rewrite driver and the proof search (proofSystem.ts).               *)

NullRule == "null"

NullNode == [kind |-> "null"]

ProgressInterval == 100

\* A gate that lets a result exceed the budget by two.
fitsLengthLoose(newExpression, maxLength) ==
  getLength(newExpression) <= maxLength + 2

\* A length gate that admits every result.
fitsLengthAlways(newExpression, maxLength) == TRUE

\* The length gate on a rule's result.
fitsLength(newExpression, maxLength) == getLength(newExpression) <= maxLength

\* A rules loop that collects the results from the last rule to the first.
RECURSIVE rootTransformationsReversed(_, _, _, _)
rootTransformationsReversed(expression, rules, maxLength, i) ==
  IF i > Len(rules) THEN <<>>
  ELSE LET rule == rules[i]
           rest == rootTransformationsReversed(expression, rules, maxLength,
                                               i + 1)
       IN IF canApply(rule, expression)
          THEN LET newExpression == apply(rule, expression)
               IN IF newExpression # Thrown
                     /\ fitsLength(newExpression, maxLength)
                  THEN rest \o
                       << [newExpression |-> newExpression, rule |-> rule,
                           appliedToSubexpression |-> expression] >>
                  ELSE rest
          ELSE rest

\* The rules loop of getAllPossibleTransformations, from rule i on.  A rule
\* whose apply raises is skipped.
RECURSIVE rootTransformations(_, _, _, _)
rootTransformations(expression, rules, maxLength, i) ==
  IF i > Len(rules) THEN <<>>
  ELSE LET rule == rules[i]
           rest == rootTransformations(expression, rules, maxLength, i + 1)
       IN IF canApply(rule, expression)
          THEN LET newExpression == apply(rule, expression)
               IN IF newExpression # Thrown
                     /\ fitsLength(newExpression, maxLength)
                  THEN << [newExpression |-> newExpression, rule |-> rule,
                           appliedToSubexpression |-> expression] >> \o rest
                  ELSE rest
          ELSE rest

\* A lifting loop that drops a rebuilt expression of exactly maxLength nodes.
RECURSIVE liftTransformationsStrict(_, _, _, _, _)
liftTransformationsStrict(inner, i, expression, side, maxLength) ==
  IF i > Len(inner) THEN <<>>
  ELSE LET newExpression ==
             CASE side = "inner" -> Negation(inner[i].newExpression)
               [] side = "left" ->
                    createBinaryOperation(expression, inner[i].newExpression,
                                          expression.right)
               [] side = "right" ->
                    createBinaryOperation(expression, expression.left,
                                          inner[i].newExpression)
           rest == liftTransformationsStrict(inner, i + 1, expression, side,
                                             maxLength)
       IN IF getLength(newExpression) < maxLength
          THEN << [newExpression |-> newExpression, rule |-> inner[i].rule,
                   appliedToSubexpression |-> inner[i].appliedToSubexpression] >>
               \o rest
          ELSE rest

\* Each inner transformation of inner[i..] rebuilt by wrap, kept when the
\* rebuilt expression fits maxLength.
RECURSIVE liftTransformations(_, _, _, _, _)
liftTransformations(inner, i, expression, side, maxLength) ==
  IF i > Len(inner) THEN <<>>
  ELSE LET newExpression ==
             CASE side = "inner" -> Negation(inner[i].newExpression)
               [] side = "left" ->
                    createBinaryOperation(expression, inner[i].newExpression,
                                          expression.right)
               [] side = "right" ->
                    createBinaryOperation(expression, expression.left,
                                          inner[i].newExpression)
           rest == liftTransformations(inner, i + 1, expression, side, maxLength)
       IN IF getLength(newExpression) <= maxLength
          THEN << [newExpression |-> newExpression, rule |-> inner[i].rule,
                   appliedToSubexpression |-> inner[i].appliedToSubexpression] >>
               \o rest
          ELSE rest

RECURSIVE getAllPossibleTransformations(_, _, _)
RECURSIVE getSubexpressionTransformations(_, _, _)

\* Each const ...Transformations is bound once, as an element of a singleton
\* set, and the loop over it gives the one element CHOOSE picks.
getSubexpressionTransformations(expression, rules, maxLength) ==
  IF isNegation(expression)
  THEN CHOOSE transformations \in
         { liftTransformations(innerTransformations, 1, expression, "inner",
                               maxLength) :
             innerTransformations \in
               { getAllPossibleTransformations(expression.expression, rules,
                                               maxLength - 1) } } : TRUE
  ELSE IF isBinaryOperation(expression)
  THEN (CHOOSE transformations \in
         { liftTransformations(leftTransformations, 1, expression, "left",
                               maxLength) :
             leftTransformations \in
               { getAllPossibleTransformations(
                   expression.left, rules,
                   maxLength - getLength(expression.right) - 1) } } : TRUE)
       \o
       (CHOOSE transformations \in
         { liftTransformations(rightTransformations, 1, expression, "right",
                               maxLength) :
             rightTransformations \in
               { getAllPossibleTransformations(
                   expression.right, rules,
                   maxLength - getLength(expression.left) - 1) } } : TRUE)
  ELSE <<>>

getAllPossibleTransformations(expression, rules, maxLength) ==
  rootTransformations(expression, rules, maxLength, 1)
  \o getSubexpressionTransformations(expression, rules, maxLength)

\* The nodes from the start node to finalNode, following parent.
RECURSIVE nodeChain(_)
nodeChain(node) ==
  IF node = NullNode THEN <<>> ELSE Append(nodeChain(node.parent), node)

reconstructProof(finalNode) ==
  LET nodes == nodeChain(finalNode)
  IN [i \in 1..Len(nodes) |->
        [expression |-> nodes[i].expression,
         rule |-> nodes[i].rule,
         appliedToSubexpression |-> nodes[i].appliedToSubexpression,
         stepNumber |-> i]]

\* Takes the last node of the queue instead of the first.
queuePop(q) == [current |-> q[Len(q)], rest |-> SubSeq(q, 1, Len(q) - 1)]

\* queue.shift(): the removed first node and the remaining queue.
queueShift(q) == [current |-> Head(q), rest |-> Tail(q)]

\* A budget test that lets the count reach maxStates and go on.
budgetReachedStrict(explored, maxStates) == explored > maxStates

\* The termination test on the state budget.
budgetReached(explored, maxStates) == explored >= maxStates

\* An initial check that never succeeds.
alreadyEqualNever(start, target) == FALSE

\* The initial check of findTransformationProof.
alreadyEqual(start, target) == Equals(start, target)

\* A visited set that keeps the hashes of the previous call.
initialVisitedKept(start) == visited \cup {getHash(start)}

\* A visited set that starts without the hash of the start expression.
initialVisitedEmpty(start) == {}

\* The visited set a call starts with.
initialVisited(start) == {getHash(start)}

\* The for loop over the transformations of current, from transformation i
\* on: the visited set, the queue and, when the target was produced, its node.
RECURSIVE expand(_, _, _, _, _, _)
expand(transformations, i, current, target, seen, q) ==
  IF i > Len(transformations)
  THEN [visited |-> seen, queue |-> q, goal |-> NullNode]
  ELSE LET t == transformations[i]
           hash == getHash(t.newExpression)
       IN IF hash \in seen
          THEN expand(transformations, i + 1, current, target, seen, q)
          ELSE LET newNode ==
                     [expression |-> t.newExpression,
                      parent |-> current,
                      rule |-> t.rule,
                      appliedToSubexpression |-> t.appliedToSubexpression,
                      depth |-> current.depth + 1]
               IN IF Equals(t.newExpression, target)
                  THEN [visited |-> seen \cup {hash}, queue |-> q,
                        goal |-> newNode]
                  ELSE expand(transformations, i + 1, current, target,
                              seen \cup {hash}, Append(q, newNode))

\* A maximum that keeps its first argument.
MaxKeepFirst(x, y) == x

\* Math.max
Max(x, y) == IF x >= y THEN x ELSE y

NotFoundResult(explored, depthReached) ==
  [startExpression |-> startExpression,
   targetExpression |-> targetExpression,
   steps |-> <<>>,
   found |-> FALSE,
   searchDepth |-> depthReached,
   totalStatesExplored |-> explored]

\* Entry of findTransformationProof: the initial check and the set-up of
\* the queue, the visited set and the counters.
Start ==
  /\ pc = "start"
  /\ calls' = calls + 1
  /\ IF alreadyEqual(startExpression, targetExpression)
     THEN /\ result' =
               [startExpression |-> startExpression,
                targetExpression |-> targetExpression,
                steps |-> << [expression |-> startExpression,
                              rule |-> NullRule,
                              appliedToSubexpression |-> Undefined,
                              stepNumber |-> 1] >>,
                found |-> TRUE,
                searchDepth |-> 0,
                totalStatesExplored |-> 1]
          /\ pc' = "done"
          /\ UNCHANGED <<queue, visited, statesExplored, maxDepthReached>>
     ELSE /\ queue' = << [expression |-> startExpression,
                          parent |-> NullNode,
                          rule |-> NullRule,
                          appliedToSubexpression |-> Undefined,
                          depth |-> 0] >>
          /\ visited' = initialVisited(startExpression)
          /\ statesExplored' = 0
          /\ maxDepthReached' = 0
          /\ pc' = "loop"
          /\ UNCHANGED result
  /\ UNCHANGED <<startExpression, targetExpression, opts, prevResult, aborted,
                 ruleVars, storeVars>>

\* Whether the onProgress callback given by ProofView raises at this count.
progressRaises(explored) ==
  opts.onProgress /\ explored % ProgressInterval = 0 /\ aborted

\* One iteration of the while loop in which onProgress returns normally.
Iterate ==
  /\ pc = "loop"
  /\ Len(queue) > 0
  /\ LET shifted == queueShift(queue)
         current == shifted.current
         explored == statesExplored + 1
     IN /\ ~progressRaises(explored)
        /\ statesExplored' = explored
        /\ IF budgetReached(explored, opts.maxStates)
           THEN /\ queue' = shifted.rest
                /\ result' = NotFoundResult(explored, maxDepthReached)
                /\ pc' = "done"
                /\ UNCHANGED <<visited, maxDepthReached>>
           ELSE IF current.depth >= opts.maxDepth
           THEN /\ queue' = shifted.rest
                /\ UNCHANGED <<visited, maxDepthReached, result, pc>>
           ELSE \E transformations \in
                     {getAllPossibleTransformations(
                        current.expression, opts.rules,
                        opts.maxExpressionLength)} :
                \E out \in {expand(transformations, 1, current,
                                   targetExpression, visited, shifted.rest)} :
                   /\ maxDepthReached' = Max(maxDepthReached, current.depth)
                   /\ visited' = out.visited
                   /\ queue' = out.queue
                   /\ IF out.goal # NullNode
                      THEN /\ result' =
                                [startExpression |-> startExpression,
                                 targetExpression |-> targetExpression,
                                 steps |-> reconstructProof(out.goal),
                                 found |-> TRUE,
                                 searchDepth |-> out.goal.depth,
                                 totalStatesExplored |-> explored]
                           /\ pc' = "done"
                      ELSE UNCHANGED <<result, pc>>
  /\ UNCHANGED <<startExpression, targetExpression, opts, calls, prevResult,
                 aborted, ruleVars, storeVars>>

\* The while loop ends on an empty queue: the not-found return.
Exhausted ==
  /\ pc = "loop"
  /\ Len(queue) = 0
  /\ result' = NotFoundResult(statesExplored, maxDepthReached)
  /\ pc' = "done"
  /\ UNCHANGED <<startExpression, targetExpression, opts, queue, visited,
                 statesExplored, maxDepthReached, calls, prevResult, aborted,
                 ruleVars, storeVars>>

\* One iteration in which onProgress raises 'Search cancelled': the error
\* leaves findTransformationProof, which returns nothing.
ProgressThrows ==
  /\ pc = "loop"
  /\ Len(queue) > 0
  /\ progressRaises(statesExplored + 1)
  /\ statesExplored' = statesExplored + 1
  /\ queue' = queueShift(queue).rest
  /\ pc' = "thrown"
  /\ UNCHANGED <<startExpression, targetExpression, opts, visited,
                 maxDepthReached, result, calls, prevResult, aborted, ruleVars, storeVars>>

\* handleCancelSearch: the caller aborts its AbortController.
Abort ==
  /\ pc \in {"start", "loop"}
  /\ opts.onProgress
  /\ ~aborted
  /\ aborted' = TRUE
  /\ UNCHANGED <<pc, startExpression, targetExpression, opts, queue, visited,
                 statesExplored, maxDepthReached, result, calls, prevResult,
                 ruleVars, storeVars>>

\* The caller searches again with the same arguments.
MaxCalls == 2

CallAgain ==
  /\ pc = "done"
  /\ calls < MaxCalls
  /\ prevResult' = result
  /\ result' = Undefined
  /\ pc' = "start"
  /\ UNCHANGED <<startExpression, targetExpression, opts, queue, visited,
                 statesExplored, maxDepthReached, calls, aborted, ruleVars, storeVars>>

----------------------------------------------------------------------------
(* Inputs of the search.                                                   *)

MaxDepthBound == 3

MaxStatesBound == 30

MaxLengthBound == 5

LargeBudget == 10000

a == Variable("a")

b == Variable("b")

\* Start expressions.
StartExprs ==
  { a, Conjunction(a, b), Conjunction(Negation(Negation(a)), b),
    Implication(a, b), Disjunction(Negation(a), b),
    Negation(Conjunction(a, b)),
    Disjunction(a, Conjunction(a, b)), Disjunction(a, Negation(a)) }

\* Target expressions: some start expressions, results of one and of
\* several rewrites, and expressions no rewrite reaches.
TargetExprs ==
  { a, b, Conjunction(a, b), Conjunction(b, a),
    Implication(a, b), Implication(Negation(b), Negation(a)),
    Disjunction(Negation(a), b),
    Negation(Conjunction(a, b)), Disjunction(Negation(a), Negation(b)),
    Disjunction(Negation(b), Negation(a)),
    Disjunction(a, Negation(a)), TrueConstant,
    Disjunction(a, Disjunction(a, FalseConstant)) }

\* rules = ALL_TRANSFORMATION_RULES.filter(rule => selected.has(rule))
RECURSIVE filterRules(_, _)
filterRules(rules, selected) ==
  IF rules = <<>> THEN <<>>
  ELSE (IF Head(rules) \in selected THEN <<Head(rules)>> ELSE <<>>)
       \o filterRules(Tail(rules), selected)

\* Rule selections: every rule, none, and the rules that do not grow
\* an expression by duplicating or padding it.
RuleSelections ==
  { RuleNames, {},
    RuleNames \ {"IdempotenceReverseOR", "IdempotenceReverseAND",
                 "Simplification1AndReverse", "Simplification1OrReverse"} }

SearchIdle ==
  /\ pc = "start"
  /\ NoStore
  /\ expr = Undefined
  /\ expr2 = Undefined
  /\ applied = NoApplication
  /\ NoInput
  /\ queue = <<>>
  /\ visited = {}
  /\ statesExplored = 0
  /\ maxDepthReached = 0
  /\ result = Undefined
  /\ calls = 0
  /\ prevResult = Undefined
  /\ aborted = FALSE

Init ==
  /\ SearchIdle
  /\ startExpression \in StartExprs
  /\ targetExpression \in TargetExprs
  /\ \E depth \in {0, 1, MaxDepthBound}, states \in {0, 1, 2, MaxStatesBound},
        length \in {0, MaxLengthBound - 2, MaxLengthBound},
        selected \in RuleSelections :
       opts = [maxDepth |-> depth, maxStates |-> states,
               maxExpressionLength |-> length,
               rules |-> filterRules(ALL_TRANSFORMATION_RULES, selected),
               onProgress |-> FALSE]

Next == Start \/ Iterate \/ Exhausted \/ CallAgain

Spec == Init /\ [][Next]_vars

\* Exhaustive searches: budgets larger than the set of admitted expressions.
TermTargets == {Variable("c"), TrueConstant, Conjunction(b, a)}

InitTerm ==
  /\ SearchIdle
  /\ startExpression \in StartExprs
  /\ targetExpression \in TermTargets
  /\ \E length \in 0..MaxLengthBound, selected \in RuleSelections :
       opts = [maxDepth |-> LargeBudget, maxStates |-> LargeBudget,
               maxExpressionLength |-> length,
               rules |-> filterRules(ALL_TRANSFORMATION_RULES, selected),
               onProgress |-> FALSE]

NextTerm == Start \/ Iterate \/ Exhausted

\* findTransformationProof is synchronous: once called it runs on.
SpecTerm == InitTerm /\ [][NextTerm]_vars /\ WF_vars(NextTerm)

\* Searches long enough to reach a progress boundary, called as ProofView
\* calls them: with its onProgress callback and its abort signal.
DefaultMaxDepth == 15

DefaultMaxStates == 10000

InitCancel ==
  /\ SearchIdle
  /\ startExpression \in {Negation(a), Negation(Conjunction(a, b))}
  /\ targetExpression \in {Variable("c"), a}
  /\ opts = [maxDepth |-> DefaultMaxDepth, maxStates |-> DefaultMaxStates,
             maxExpressionLength |-> MaxLengthBound + 1,
             rules |-> ALL_TRANSFORMATION_RULES,
             onProgress |-> TRUE]

NextCancel == Start \/ Iterate \/ Exhausted \/ ProgressThrows \/ Abort

SpecCancel == InitCancel /\ [][NextCancel]_vars

(* C1: every rule of the catalogue that accepts an expression returns an  *)
(* expression with the same truth value under every assignment over the   *)
(* variables of the input and of the output.                              *)
C1_RuleSoundness ==
  (pc = "applied" /\ applied.canApply) =>
    /\ applied.out # Thrown
    /\ \A assignment \in
           [getVariables(expr) \cup getVariables(applied.out) -> BOOLEAN] :
         evaluate(expr, assignment) = evaluate(applied.out, assignment)

C1_Witness ==
  /\ pc = "applied"
  /\ applied.canApply
  /\ applied.rule = "Simplification2Or"
  /\ isConjunction(expr.left)
  /\ getVariables(expr) = {"a", "b"}

(* C9: a rule handed an expression it does not accept raises an error     *)
(* instead of returning an expression.                                    *)
C9_RulePartiality ==
  (pc = "applied" /\ ~applied.canApply) => applied.out = Thrown

(* C10: two expressions are structurally equal exactly when their hash    *)
(* strings are equal.                                                     *)
C10_HashInjective ==
  pc = "hashed" => (applied.equals <=> applied.hash1 = applied.hash2)

C10_Witness ==
  /\ pc = "hashed"
  /\ ~applied.equals
  /\ isBinaryOperation(expr) /\ isBinaryOperation(expr2)
  /\ expr.left = expr2.left /\ expr.right = expr2.right
  /\ applied.hash1 # applied.hash2

----------------------------------------------------------------------------
(* Oracles for the search claims.                                          *)

\* Every expression obtained from e by applying rule at exactly one
\* position of e, whatever its length.
RECURSIVE RewritesOf(_, _)
RewritesOf(e, rule) ==
  (IF canApply(rule, e) /\ apply(rule, e) # Thrown
   THEN {apply(rule, e)} ELSE {})
  \cup
  (IF isNegation(e)
   THEN {Negation(x) : x \in RewritesOf(e.expression, rule)}
   ELSE {})
  \cup
  (IF isBinaryOperation(e)
   THEN {[e EXCEPT !.left = x] : x \in RewritesOf(e.left, rule)}
        \cup
        {[e EXCEPT !.right = x] : x \in RewritesOf(e.right, rule)}
   ELSE {})

Range(f) == {f[i] : i \in DOMAIN f}

\* The expressions the driver admits as rewrites of e under the options.
Successors(e) ==
  {t.newExpression :
     t \in Range(getAllPossibleTransformations(e, opts.rules,
                                               opts.maxExpressionLength))}

\* The expressions at most k admitted rewrites away from the start.
RECURSIVE ReachWithin(_)
ReachWithin(k) ==
  IF k < 0 THEN {}
  ELSE IF k = 0 THEN {startExpression}
  ELSE LET R == ReachWithin(k - 1)
       IN R \cup UNION {Successors(e) : e \in R}

Returned == pc = "done"

(* C2: a found proof starts at the start expression with no rule, ends at *)
(* the target, and each later step is the previous step's expression with *)
(* the cited rule applied at one position.                                *)
C2_SearchSoundness ==
  (Returned /\ result.found) =>
    LET steps == result.steps
    IN /\ Len(steps) >= 1
       /\ Equals(steps[1].expression, startExpression)
       /\ steps[1].rule = NullRule
       /\ Equals(steps[Len(steps)].expression, targetExpression)
       /\ \A i \in 2..Len(steps) :
            /\ steps[i].rule \in Range(opts.rules)
            /\ steps[i].expression
                 \in RewritesOf(steps[i - 1].expression, steps[i].rule)
            /\ steps[i].stepNumber = i

C2_Witness ==
  /\ Returned
  /\ result.found
  /\ Len(result.steps) >= 3
  /\ \E i \in 2..Len(result.steps) :
       result.steps[i].appliedToSubexpression # result.steps[i - 1].expression

(* C3: a found proof has as many rule applications as its search depth,   *)
(* and no shorter chain of admitted rewrites leads from start to target.  *)
C3_SearchMinimality ==
  (Returned /\ result.found) =>
    /\ result.searchDepth = Len(result.steps) - 1
    /\ targetExpression \notin ReachWithin(result.searchDepth - 1)

C3_Witness ==
  /\ Returned
  /\ result.found
  /\ result.searchDepth >= 2
  /\ Cardinality(ReachWithin(1)) >= 3

(* C4: with maxStates >= 1 and start different from target, the dequeue   *)
(* that brings the count to maxStates ends the search at once, not found, *)
(* with no steps and nothing expanded, and no result counts more than     *)
(* maxStates explored states.                                             *)
C4_StateBudget ==
  [][ (pc = "loop" /\ opts.maxStates >= 1) =>
        /\ (pc' = "done" => result'.totalStatesExplored <= opts.maxStates)
        /\ statesExplored' <= opts.maxStates
        /\ (statesExplored' = opts.maxStates /\ statesExplored # opts.maxStates) =>
             /\ pc' = "done"
             /\ ~result'.found
             /\ result'.steps = <<>>
             /\ visited' = visited ]_vars

C4_Witness ==
  /\ Returned
  /\ ~result.found
  /\ opts.maxStates >= 2
  /\ result.totalStatesExplored = opts.maxStates
  /\ Len(queue) > 0

C8_ImmediateSuccess ==
  (Returned /\ Equals(startExpression, targetExpression)) =>
    /\ result.found
    /\ Len(result.steps) = 1
    /\ result.steps[1].expression = startExpression
    /\ result.steps[1].rule = NullRule
    /\ result.steps[1].stepNumber = 1
    /\ result.searchDepth = 0

C8_Witness ==
  /\ Returned
  /\ Equals(startExpression, targetExpression)
  /\ opts.maxDepth = 0
  /\ opts.maxStates = 0
  /\ opts.maxExpressionLength = 0
  /\ opts.rules = <<>>
  /\ result.found

\* Every enqueued expression other than the start fits the length budget.
QueueFitsLength ==
  \A i \in 1..Len(queue) :
    \/ queue[i].depth = 0
    \/ getLength(queue[i].expression) <= opts.maxExpressionLength

\* The call has returned a proof, or returned on an exhausted queue before
\* the state budget was reached.
ReturnedProofOrExhausted ==
  /\ Returned
  /\ \/ result.found
     \/ Len(queue) = 0 /\ statesExplored < opts.maxStates

(* C5: under budgets larger than the set of admitted expressions, every   *)
(* enqueued expression other than the start fits maxExpressionLength, and *)
(* the search returns: with a proof, or with its queue exhausted before   *)
(* the state budget is reached.                                           *)
C5_TerminationByLengthGate == []QueueFitsLength /\ <>ReturnedProofOrExhausted

C5_Witness ==
  /\ Returned
  /\ ~result.found
  /\ Len(queue) = 0
  /\ "IdempotenceReverseOR" \in Range(opts.rules)
  /\ opts.maxStates = LargeBudget
  /\ result.totalStatesExplored >= 50
  /\ result.totalStatesExplored < opts.maxStates

(* C6: when the cancellation is observed at a progress boundary, the call *)
(* returns a result that is not found, has no steps, carries the counts   *)
(* reached, and is marked as cancelled.                                   *)
C6_CancellationReturns ==
  [][ (pc = "loop" /\ Len(queue) > 0 /\ progressRaises(statesExplored + 1)) =>
        /\ pc' = "done"
        /\ ~result'.found
        /\ result'.steps = <<>>
        /\ result'.totalStatesExplored = statesExplored + 1
        /\ "cancelled" \in DOMAIN result' ]_vars

----------------------------------------------------------------------------
(* The parenthesizer (index.ts, the parser module).  A Token[] is a        *)
(* sequence of strings; the operators take and return the source's         *)
(* 0-based indices.  An operation that returns a Token[] yields TokenList  *)
(* or, where the source throws, Thrown.                                    *)

TokenList(tokens) == [kind |-> "Tokens", tokens |-> tokens]

\* tokens[i]; undefined outside the array.
At(tokens, i) ==
  IF i >= 0 /\ i < Len(tokens) THEN tokens[i + 1] ELSE "undefined"

\* tokens.splice(i, 0, token): an index past the end inserts at the end.
splice(tokens, i, token) ==
  LET at == IF i > Len(tokens) THEN Len(tokens) ELSE i
  IN SubSeq(tokens, 1, at) \o <<token>> \o SubSeq(tokens, at + 1, Len(tokens))

\* The depth counter after the first n tokens: '(' counts up, ')' down.
parenDepth(tokens, n) ==
  Cardinality({j \in 1..n : tokens[j] = "("})
  - Cardinality({j \in 1..n : tokens[j] = ")"})

\* TRUE when validateParentheses returns, FALSE when it throws.
validateParentheses(tokens) ==
  /\ \A n \in 1..Len(tokens) : parenDepth(tokens, n) >= 0
  /\ parenDepth(tokens, Len(tokens)) = 0

isFullyParenthesized(tokens) ==
  IF Len(tokens) < 3 THEN FALSE
  ELSE IF At(tokens, 0) # "(" \/ At(tokens, Len(tokens) - 1) # ")" THEN FALSE
  ELSE \A i \in 0..(Len(tokens) - 2) : parenDepth(tokens, i + 1) # 0

isOperatorInParentheses(tokens, operatorIndex) ==
  parenDepth(tokens, operatorIndex) > 0

\* The inner while loop of addNegationParentheses: copies the group that
\* follows '!(' up to its closing parenthesis.
RECURSIVE copyGroup(_, _, _, _)
copyGroup(tokens, i, depth, res) ==
  IF i < Len(tokens) /\ depth > 0
  THEN LET token == At(tokens, i)
       IN copyGroup(tokens, i + 1,
                    IF token = "(" THEN depth + 1
                    ELSE IF token = ")" THEN depth - 1 ELSE depth,
                    Append(res, token))
  ELSE [i |-> i, res |-> res]

\* The index of the first token at or after j that is not '!'.
RECURSIVE skipNegations(_, _)
skipNegations(tokens, j) ==
  IF j < Len(tokens) /\ At(tokens, j) = "!"
  THEN skipNegations(tokens, j + 1) ELSE j

\* count copies of the given tokens, one after the other.
RECURSIVE repeatTokens(_, _)
repeatTokens(count, pushed) ==
  IF count <= 0 THEN <<>> ELSE pushed \o repeatTokens(count - 1, pushed)

\* The outer while loop of addNegationParentheses from index i on.
RECURSIVE negationLoop(_, _, _)
negationLoop(tokens, i, res) ==
  IF i >= Len(tokens) THEN TokenList(res)
  ELSE IF At(tokens, i) = "!"
  THEN IF At(tokens, i + 1) = "("
       THEN LET copied == copyGroup(tokens, i + 2, 1,
                                    res \o <<"(", "!", "(">>)
            IN negationLoop(tokens, copied.i, Append(copied.res, ")"))
       ELSE IF i + 1 >= Len(tokens) THEN Thrown
       ELSE IF At(tokens, i + 1) = "!"
       THEN LET j == skipNegations(tokens, i + 1)
                negationCount == j - (i + 1)
            IN IF j >= Len(tokens) THEN Thrown
               ELSE negationLoop(
                      tokens, j + 1,
                      res \o <<"(", "!">>
                        \o repeatTokens(negationCount, <<"(", "!">>)
                        \o <<At(tokens, j)>>
                        \o repeatTokens(negationCount, <<")">>)
                        \o <<")">>)
       ELSE negationLoop(tokens, i + 2,
                         res \o <<"(", "!", At(tokens, i + 1), ")">>)
  ELSE negationLoop(tokens, i + 1, Append(res, At(tokens, i)))

addNegationParentheses(tokens) == negationLoop(tokens, 0, <<>>)

\* An operand bound: the index found, or threw when the source throws.
OperandBound(index) == [threw |-> FALSE, index |-> index]

OperandThrown == [threw |-> TRUE, index |-> 0]

\* The while loop of findLeftOperandStart: the value of i when it ends.
RECURSIVE scanLeft(_, _, _)
scanLeft(tokens, i, depth) ==
  IF i >= 0 /\ depth > 0
  THEN scanLeft(tokens, i - 1,
                IF At(tokens, i) = ")" THEN depth + 1
                ELSE IF At(tokens, i) = "(" THEN depth - 1 ELSE depth)
  ELSE [i |-> i, depth |-> depth]

findLeftOperandStart(tokens, operatorIndex) ==
  IF At(tokens, operatorIndex - 1) = ")"
  THEN LET scanned == scanLeft(tokens, operatorIndex - 2, 1)
       IN IF scanned.depth # 0 THEN OperandThrown
          ELSE OperandBound(scanned.i + 1)
  ELSE OperandBound(operatorIndex - 1)

\* The while loop of findRightOperandEnd: the value of i when it ends.
RECURSIVE scanRight(_, _, _)
scanRight(tokens, i, depth) ==
  IF i < Len(tokens) /\ depth > 0
  THEN scanRight(tokens, i + 1,
                 IF At(tokens, i) = "(" THEN depth + 1
                 ELSE IF At(tokens, i) = ")" THEN depth - 1 ELSE depth)
  ELSE [i |-> i, depth |-> depth]

findRightOperandEnd(tokens, operatorIndex) ==
  IF At(tokens, operatorIndex + 1) = "("
  THEN LET scanned == scanRight(tokens, operatorIndex + 2, 1)
       IN IF scanned.depth # 0 THEN OperandThrown
          ELSE OperandBound(scanned.i - 1)
  ELSE OperandBound(operatorIndex + 1)

\* tokens.indexOf(token, fromIndex); -1 when there is none.
indexOf(tokens, token, fromIndex) ==
  LET found == {i \in fromIndex..(Len(tokens) - 1) : At(tokens, i) = token}
  IN IF found = {} THEN -1
     ELSE CHOOSE i \in found : \A j \in found : i <= j

\* The indices of the operator outside parentheses, from right to left.
RECURSIVE operatorIndices(_, _, _)
operatorIndices(tokens, operator, i) ==
  IF i < 0 THEN <<>>
  ELSE IF At(tokens, i) = operator /\ ~isOperatorInParentheses(tokens, i)
  THEN <<i>> \o operatorIndices(tokens, operator, i - 1)
  ELSE operatorIndices(tokens, operator, i - 1)

\* The for loop of addOperatorParentheses over indices, from position k on.
RECURSIVE operatorLoop(_, _, _, _)
operatorLoop(indices, k, operator, res) ==
  IF k > Len(indices) THEN TokenList(res)
  ELSE LET index == indices[k]
           actualIndex == indexOf(res, operator, index)
       IN IF index >= Len(res) \/ actualIndex = -1
          THEN operatorLoop(indices, k + 1, operator, res)
          ELSE IF actualIndex = 0 \/ actualIndex = Len(res) - 1 THEN Thrown
          ELSE LET leftStart == findLeftOperandStart(res, actualIndex)
                   rightEnd == findRightOperandEnd(res, actualIndex)
               IN IF leftStart.threw \/ rightEnd.threw THEN Thrown
                  ELSE operatorLoop(
                         indices, k + 1, operator,
                         splice(splice(res, rightEnd.index + 1, ")"),
                                leftStart.index, "("))

addOperatorParentheses(tokens, operator) ==
  IF isFullyParenthesized(tokens) THEN TokenList(tokens)
  ELSE operatorLoop(operatorIndices(tokens, operator, Len(tokens) - 1), 1,
                    operator, tokens)

\* const operators of addParentheses, in precedence order.
operators == <<"&", "|", "=>", "<=>">>

\* The for loop of addParentheses over operators, from position k on.
RECURSIVE precedenceLoop(_, _)
precedenceLoop(processedTokens, k) ==
  IF processedTokens = Thrown \/ k > Len(operators) THEN processedTokens
  ELSE precedenceLoop(
         addOperatorParentheses(processedTokens.tokens, operators[k]), k + 1)

addParentheses(tokens) ==
  IF Len(tokens) = 0 THEN Thrown
  ELSE IF ~validateParentheses(tokens) THEN Thrown
  ELSE IF isFullyParenthesized(tokens) THEN TokenList(tokens)
  ELSE precedenceLoop(addNegationParentheses(tokens), 1)

----------------------------------------------------------------------------
(* The AST constructor (constructor.ts): recursive descent over Token[].   *)
(* A parse function yields a ParseResult or, where the source throws,      *)
(* Thrown.                                                                 *)

ParseResult(expression, nextIndex) ==
  [kind |-> "ParseResult", expression |-> expression, nextIndex |-> nextIndex]

reservedWords == {"true", "false", "&", "|", "!", "=>", "<=>", "(", ")"}

\* The tokens of the model that match /^[a-zA-Z]\w*$/.
WordTokens == {VarNames[i] : i \in 1..Len(VarNames)} \cup {"true", "false"}

isValidVariableName(token) == token \notin reservedWords /\ token \in WordTokens

RECURSIVE parseExpression(_, _)
RECURSIVE parseBiconditional(_, _)
RECURSIVE parseImplication(_, _)
RECURSIVE parseDisjunction(_, _)
RECURSIVE parseConjunction(_, _)
RECURSIVE parseNegation(_, _)
RECURSIVE parsePrimary(_, _)
RECURSIVE biconditionalLoop(_, _)
RECURSIVE implicationLoop(_, _)
RECURSIVE disjunctionLoop(_, _)
RECURSIVE conjunctionLoop(_, _)

parsePrimary(tokens, startIndex) ==
  IF startIndex >= Len(tokens) THEN Thrown
  ELSE LET token == At(tokens, startIndex)
       IN IF token = "("
          THEN LET innerResult == parseExpression(tokens, startIndex + 1)
               IN IF innerResult = Thrown THEN Thrown
                  ELSE IF \/ innerResult.nextIndex >= Len(tokens)
                          \/ At(tokens, innerResult.nextIndex) # ")"
                  THEN Thrown
                  ELSE ParseResult(innerResult.expression,
                                   innerResult.nextIndex + 1)
          ELSE IF token = "true"
          THEN ParseResult(TrueConstant, startIndex + 1)
          ELSE IF token = "false"
          THEN ParseResult(FalseConstant, startIndex + 1)
          ELSE IF isValidVariableName(token)
          THEN ParseResult(Variable(token), startIndex + 1)
          ELSE Thrown

parseNegation(tokens, startIndex) ==
  IF startIndex >= Len(tokens) THEN Thrown
  ELSE IF At(tokens, startIndex) = "!"
  THEN LET innerResult == parseNegation(tokens, startIndex + 1)
       IN IF innerResult = Thrown THEN Thrown
          ELSE ParseResult(Negation(innerResult.expression),
                           innerResult.nextIndex)
  ELSE parsePrimary(tokens, startIndex)

\* The while loop of parseConjunction.
conjunctionLoop(tokens, res) ==
  IF res = Thrown THEN Thrown
  ELSE IF res.nextIndex < Len(tokens) /\ At(tokens, res.nextIndex) = "&"
  THEN LET rightResult == parseNegation(tokens, res.nextIndex + 1)
       IN IF rightResult = Thrown THEN Thrown
          ELSE conjunctionLoop(
                 tokens,
                 ParseResult(Conjunction(res.expression, rightResult.expression),
                             rightResult.nextIndex))
  ELSE res

parseConjunction(tokens, startIndex) ==
  conjunctionLoop(tokens, parseNegation(tokens, startIndex))

\* The while loop of parseDisjunction.
disjunctionLoop(tokens, res) ==
  IF res = Thrown THEN Thrown
  ELSE IF res.nextIndex < Len(tokens) /\ At(tokens, res.nextIndex) = "|"
  THEN LET rightResult == parseConjunction(tokens, res.nextIndex + 1)
       IN IF rightResult = Thrown THEN Thrown
          ELSE disjunctionLoop(
                 tokens,
                 ParseResult(Disjunction(res.expression, rightResult.expression),
                             rightResult.nextIndex))
  ELSE res

parseDisjunction(tokens, startIndex) ==
  disjunctionLoop(tokens, parseConjunction(tokens, startIndex))

\* The while loop of parseImplication.
implicationLoop(tokens, res) ==
  IF res = Thrown THEN Thrown
  ELSE IF res.nextIndex < Len(tokens) /\ At(tokens, res.nextIndex) = "=>"
  THEN LET rightResult == parseDisjunction(tokens, res.nextIndex + 1)
       IN IF rightResult = Thrown THEN Thrown
          ELSE implicationLoop(
                 tokens,
                 ParseResult(Implication(res.expression, rightResult.expression),
                             rightResult.nextIndex))
  ELSE res

parseImplication(tokens, startIndex) ==
  implicationLoop(tokens, parseDisjunction(tokens, startIndex))

\* The while loop of parseBiconditional.
biconditionalLoop(tokens, res) ==
  IF res = Thrown THEN Thrown
  ELSE IF res.nextIndex < Len(tokens) /\ At(tokens, res.nextIndex) = "<=>"
  THEN LET rightResult == parseImplication(tokens, res.nextIndex + 1)
       IN IF rightResult = Thrown THEN Thrown
          ELSE biconditionalLoop(
                 tokens,
                 ParseResult(Biconditional(res.expression,
                                           rightResult.expression),
                             rightResult.nextIndex))
  ELSE res

parseBiconditional(tokens, startIndex) ==
  biconditionalLoop(tokens, parseImplication(tokens, startIndex))

parseExpression(tokens, startIndex) == parseBiconditional(tokens, startIndex)

\* constructAST: the expression of the ParseResult; its nextIndex is dropped.
constructAST(tokens) ==
  IF Len(tokens) = 0 THEN Thrown
  ELSE LET parsed == parseExpression(tokens, 0)
       IN IF parsed = Thrown THEN Thrown ELSE parsed.expression

----------------------------------------------------------------------------
(* Strings.  A string is the sequence of its lexemes: names, constants,    *)
(* operator symbols, parentheses and the blanks between them.              *)

getOperatorSymbol(e) ==
  CASE isConjunction(e) -> "&"
    [] isDisjunction(e) -> "|"
    [] isImplication(e) -> "=>"
    [] isBiconditional(e) -> "<=>"

\* BinaryOperation.shouldParenthesize
shouldParenthesize(e) ==
  IF isVariable(e) \/ isNegation(e) THEN FALSE ELSE isBinaryOperation(e)

RECURSIVE toString(_)
toString(e) ==
  CASE isVariable(e) -> <<e.name>>
    [] isTrueConstant(e) -> <<"true">>
    [] isFalseConstant(e) -> <<"false">>
    [] isNegation(e) ->
         IF isVariable(e.expression) \/ isNegation(e.expression)
         THEN <<"!">> \o toString(e.expression)
         ELSE <<"!", "(">> \o toString(e.expression) \o <<")">>
    [] isBinaryOperation(e) ->
         LET leftStr == IF shouldParenthesize(e.left)
                        THEN <<"(">> \o toString(e.left) \o <<")">>
                        ELSE toString(e.left)
             rightStr == IF shouldParenthesize(e.right)
                         THEN <<"(">> \o toString(e.right) \o <<")">>
                         ELSE toString(e.right)
         IN leftStr \o <<" ", getOperatorSymbol(e), " ">> \o rightStr

\* DELIMITER_MAPPING on one lexeme: the ASCII variants of the table; a
\* lexeme that is no variant stays as it is.
DELIMITER_MAPPING(lexeme) ==
  CASE lexeme \in {"^", "&&", "AND", "and", "*"} -> "&"
    [] lexeme \in {"v", "||", "OR", "or", "+"} -> "|"
    [] lexeme \in {"~", "NOT", "not"} -> "!"
    [] lexeme \in {"->", "IMP", "imp", "implies"} -> "=>"
    [] lexeme \in {"<->", "IFF", "iff", "equiv"} -> "<=>"
    [] lexeme \in {"TRUE", "True", "T", "t", "1"} -> "true"
    [] lexeme \in {"FALSE", "False", "F", "f", "0"} -> "false"
    [] OTHER -> lexeme

\* The tokenizer, parseExpression(expression: string) of the parser module:
\* every lexeme is normalized, the blanks between the tokens are dropped.
RECURSIVE tokenize(_)
tokenize(expression) ==
  IF Len(expression) = 0 THEN <<>>
  ELSE IF Head(expression) = " " THEN tokenize(Tail(expression))
  ELSE <<DELIMITER_MAPPING(Head(expression))>> \o tokenize(Tail(expression))

\* Steps 2 and 3 of parseToExpression, on the tokens of step 1.
parseTokens(tokens) ==
  IF Len(tokens) = 0 THEN Thrown
  ELSE LET parenthesizedTokens == addParentheses(tokens)
       IN IF parenthesizedTokens = Thrown THEN Thrown
          ELSE constructAST(parenthesizedTokens.tokens)

parseToExpression(expressionString) == parseTokens(tokenize(expressionString))

----------------------------------------------------------------------------
(* The parser on token lists: addParentheses and constructAST, then the    *)
(* round trip through toString.                                            *)

MaxTokens == 5

TokenAlphabet ==
  Vars \cup {"true", "!", "&", "|", "=>", "<=>", "(", ")"}

TokenLists == UNION {[1..n -> TokenAlphabet] : n \in 0..MaxTokens}

NotParsed == [parenthesizedTokens |-> Undefined, direct |-> Undefined,
              parsed |-> Undefined]

InitParse ==
  /\ pc = "parse"
  /\ inputTokens \in TokenLists
  /\ inputAssignment = <<>>
  /\ expr = Undefined
  /\ expr2 = Undefined
  /\ applied = NotParsed
  /\ NoSearch

\* constructAST(inputTokens) called directly, and steps 2 and 3 of
\* parseToExpression on the same tokens.  direct and parsed keep the
\* ParseResult whose expression constructAST returns.
ParseTokens ==
  /\ pc = "parse"
  /\ LET parenthesizedTokens == addParentheses(inputTokens)
     IN applied' =
          [parenthesizedTokens |-> parenthesizedTokens,
           direct |-> IF Len(inputTokens) = 0 THEN Thrown
                      ELSE parseExpression(inputTokens, 0),
           parsed |-> IF parenthesizedTokens = Thrown THEN Thrown
                      ELSE parseExpression(parenthesizedTokens.tokens, 0)]
  /\ expr' = parseTokens(inputTokens)
  /\ pc' = "parsed"
  /\ UNCHANGED <<expr2, inputTokens, inputAssignment, searchVars, storeVars>>

\* parseToExpression(expr.toString()) for an expression the parser returned.
RoundTrip ==
  /\ pc = "parsed"
  /\ expr # Thrown
  /\ expr2' = parseToExpression(toString(expr))
  /\ pc' = "reparsed"
  /\ UNCHANGED <<expr, applied, inputTokens, inputAssignment, searchVars, storeVars>>

NextParse == ParseTokens \/ RoundTrip

SpecParse == InitParse /\ [][NextParse]_vars

----------------------------------------------------------------------------
(* Claims on the parser.                                                   *)

(* C11: for every expression the parser returned, parsing its toString     *)
(* succeeds and gives a structurally equal expression.                     *)
C11_ParserRoundTrip ==
  pc = "reparsed" => (expr2 # Thrown /\ Equals(expr2, expr))

\* The tree the stated precedence and associativity give a token list
\* without parentheses: '<=>' and '=>' split at their first occurrence
\* (right-associative), '|' and '&' at their last (left-associative), '!'
\* binds tightest.
BinaryTokens == {"&", "|", "=>", "<=>"}

FirstIndexOf(ts, op) ==
  CHOOSE i \in 1..Len(ts) : ts[i] = op /\ \A j \in 1..(i - 1) : ts[j] # op

LastIndexOf(ts, op) ==
  CHOOSE i \in 1..Len(ts) : ts[i] = op /\ \A j \in (i + 1)..Len(ts) : ts[j] # op

BinaryNode(op, l, r) ==
  IF l = Thrown \/ r = Thrown THEN Thrown
  ELSE CASE op = "&" -> Conjunction(l, r)
         [] op = "|" -> Disjunction(l, r)
         [] op = "=>" -> Implication(l, r)
         [] op = "<=>" -> Biconditional(l, r)

RECURSIVE PrecedenceTree(_)
PrecedenceTree(ts) ==
  LET SplitAt(op, i) ==
        BinaryNode(op, PrecedenceTree(SubSeq(ts, 1, i - 1)),
                   PrecedenceTree(SubSeq(ts, i + 1, Len(ts))))
  IN IF Len(ts) = 0 THEN Thrown
     ELSE IF "<=>" \in Range(ts) THEN SplitAt("<=>", FirstIndexOf(ts, "<=>"))
     ELSE IF "=>" \in Range(ts) THEN SplitAt("=>", FirstIndexOf(ts, "=>"))
     ELSE IF "|" \in Range(ts) THEN SplitAt("|", LastIndexOf(ts, "|"))
     ELSE IF "&" \in Range(ts) THEN SplitAt("&", LastIndexOf(ts, "&"))
     ELSE IF ts[1] = "!"
     THEN LET inner == PrecedenceTree(Tail(ts))
          IN IF inner = Thrown THEN Thrown ELSE Negation(inner)
     ELSE IF Len(ts) # 1 THEN Thrown
     ELSE IF ts[1] = "true" THEN TrueConstant
     ELSE IF ts[1] \in Vars THEN Variable(ts[1])
     ELSE Thrown

NoParentheses(ts) == "(" \notin Range(ts) /\ ")" \notin Range(ts)

(* C12: a well-formed token list without parentheses parses to the tree    *)
(* in which ! binds tighter than & than | than => than <=>, chains of &    *)
(* and of | associate to the left, chains of => and of <=> to the right.   *)
C12_PrecedenceAssociativity ==
  (/\ pc = "parsed"
   /\ NoParentheses(inputTokens)
   /\ PrecedenceTree(inputTokens) # Thrown)
  => expr = PrecedenceTree(inputTokens)

\* Some prefix closes more parentheses than it opened, or some stay open.
Unbalanced(ts) ==
  LET opened(n) == Cardinality({j \in 1..n : ts[j] = "("})
      closed(n) == Cardinality({j \in 1..n : ts[j] = ")"})
  IN \/ \E n \in 1..Len(ts) : closed(n) > opened(n)
     \/ opened(Len(ts)) # closed(Len(ts))

\* A binary operator with nothing that could be its operand on one side,
\* or a negation with nothing that could be its operand after it.
MissingOperand(ts) ==
  \E i \in 1..Len(ts) :
    \/ /\ ts[i] \in BinaryTokens
       /\ \/ i = 1
          \/ i = Len(ts)
          \/ ts[i - 1] \in BinaryTokens \cup {"(", "!"}
          \/ ts[i + 1] \in BinaryTokens \cup {")"}
    \/ /\ ts[i] = "!"
       /\ \/ i = Len(ts)
          \/ ts[i + 1] \in BinaryTokens \cup {")"}

(* C13: parsing throws for every token list that is empty, has unbalanced  *)
(* parentheses, or has a binary operator or a negation with a missing      *)
(* operand; no expression is returned for such a list.                     *)
C13_ParseFailures ==
  (/\ pc = "parsed"
   /\ \/ Len(inputTokens) = 0
      \/ Unbalanced(inputTokens)
      \/ MissingOperand(inputTokens))
  => expr = Thrown

(* C14: whenever constructAST returns an expression, the parse consumed    *)
(* every token, both when it is called on the given tokens and when        *)
(* parseToExpression calls it on the parenthesized tokens.                 *)
C14_NoTrailingInput ==
  pc = "parsed" =>
    /\ applied.direct # Thrown =>
         applied.direct.nextIndex = Len(inputTokens)
    /\ applied.parsed # Thrown =>
         applied.parsed.nextIndex = Len(applied.parenthesizedTokens.tokens)

----------------------------------------------------------------------------
(* The evaluator on assignments that may leave variables out.              *)

\* Whether e.evaluate(assignment) throws.  Variable.evaluate throws when
\* its name is not in the assignment; && and || evaluate their right
\* operand only when the left one does not already decide the value.
RECURSIVE evaluateThrows(_, _)
evaluateThrows(e, assignment) ==
  CASE isVariable(e) -> e.name \notin DOMAIN assignment
    [] isNegation(e) -> evaluateThrows(e.expression, assignment)
    [] isConjunction(e) ->
         \/ evaluateThrows(e.left, assignment)
         \/ evaluate(e.left, assignment) /\ evaluateThrows(e.right, assignment)
    [] isDisjunction(e) ->
         \/ evaluateThrows(e.left, assignment)
         \/ ~evaluate(e.left, assignment) /\ evaluateThrows(e.right, assignment)
    [] isImplication(e) ->
         \/ evaluateThrows(e.left, assignment)
         \/ evaluate(e.left, assignment) /\ evaluateThrows(e.right, assignment)
    [] isBiconditional(e) ->
         evaluateThrows(e.left, assignment) \/ evaluateThrows(e.right, assignment)
    [] isTrueConstant(e) -> FALSE
    [] isFalseConstant(e) -> FALSE

\* Assignments over some of the variables.
PartialAssignments == UNION {[S -> BOOLEAN] : S \in SUBSET Vars}

InitEval ==
  /\ pc = "evaluate"
  /\ expr \in RuleInputs
  /\ inputAssignment \in PartialAssignments
  /\ inputTokens = <<>>
  /\ expr2 = Undefined
  /\ applied = NoApplication
  /\ NoSearch

\* One call of expr.evaluate(inputAssignment).
Evaluate ==
  /\ pc = "evaluate"
  /\ applied' = IF evaluateThrows(expr, inputAssignment)
                THEN [threw |-> TRUE]
                ELSE [threw |-> FALSE,
                      value |-> evaluate(expr, inputAssignment)]
  /\ pc' = "evaluated"
  /\ UNCHANGED <<expr, expr2, inputTokens, inputAssignment, searchVars, storeVars>>

NextEval == Evaluate

SpecEval == InitEval /\ [][NextEval]_vars

(* C15: evaluate throws exactly when some variable of the expression is    *)
(* absent from the assignment, wherever that variable sits, and returns a  *)
(* boolean when the assignment covers the variables.                       *)
C15_EvaluatorTotality ==
  pc = "evaluated" =>
    /\ applied.threw <=> ~(getVariables(expr) \subseteq DOMAIN inputAssignment)
    /\ ~applied.threw => applied.value \in BOOLEAN

----------------------------------------------------------------------------
(* Truth tables (truthTable.ts).                                           *)

MAX_TRUTH_TABLE_VARIABLES == 15

\* The place of a name in the order of Array.prototype.sort (code units).
nameRank(n) == CHOOSE i \in 1..Len(VarNames) : VarNames[i] = n

\* Array.from(names).sort()
RECURSIVE sort(_)
sort(names) ==
  IF names = {} THEN <<>>
  ELSE LET first == CHOOSE n \in names :
                      \A other \in names : nameRank(n) <= nameRank(other)
       IN <<first>> \o sort(names \ {first})

RECURSIVE pow2(_)
pow2(n) == IF n <= 0 THEN 1 ELSE 2 * pow2(n - 1)

\* A row bit read from the low end: position j instead of k - 1 - j.
rowBitLowFirst(i, j, k) == (i \div pow2(j)) % 2 = 1

\* Boolean((i >> bitPosition) & 1) with bitPosition = k - 1 - j.
rowBit(i, j, k) == (i \div pow2(k - 1 - j)) % 2 = 1

\* The assignment of row i over the sorted variables.
rowAssignment(variables, i) ==
  [n \in Range(variables) |->
     rowBit(i, (CHOOSE j \in 1..Len(variables) : variables[j] = n) - 1,
            Len(variables))]

\* try { expression.evaluate(assignment) } catch { false }
rowResult(expression, assignment) ==
  IF evaluateThrows(expression, assignment) THEN FALSE
  ELSE evaluate(expression, assignment)

validateVariableCount(expression) ==
  Cardinality(getVariables(expression)) <= MAX_TRUTH_TABLE_VARIABLES

generateTruthTable(expression) ==
  LET variables == sort(getVariables(expression))
      numRows == pow2(Len(variables))
  IN IF ~validateVariableCount(expression) THEN Thrown
     ELSE [variables |-> variables,
           rows |-> [r \in 1..numRows |->
                       LET rowValues == rowAssignment(variables, r - 1)
                       IN [assignment |-> rowValues,
                           result |-> rowResult(expression, rowValues)]],
           expression |-> expression]

\* A filter that keeps the rows whose result is false.
rowSatisfiedNegated(row) == ~row.result

\* The filter of analyzeTruthTable: row => row.result
rowSatisfied(row) == row.result

\* analyzeTruthTable without satisfiabilityRatio, which is not an integer.
analyzeTruthTable(truthTable) ==
  LET satisfiableCount ==
        Cardinality({r \in 1..Len(truthTable.rows) :
                       rowSatisfied(truthTable.rows[r])})
      totalRows == Len(truthTable.rows)
  IN [isTautology |-> satisfiableCount = totalRows,
      isContradiction |-> satisfiableCount = 0,
      isContingent |-> satisfiableCount > 0 /\ satisfiableCount < totalRows,
      satisfiableCount |-> satisfiableCount,
      totalRows |-> totalRows]

\* Only the variables of the first expression.
allVarsFirstOnly(vars1, vars2) == vars1

\* const allVars = new Set([...vars1, ...vars2])
allVars(vars1, vars2) == vars1 \cup vars2

\* The loop returns false at the first row on which the results differ or
\* an evaluation throws, and true when no row does.
areExpressionsEquivalent(e1, e2) ==
  LET variables == sort(allVars(getVariables(e1), getVariables(e2)))
      numRows == pow2(Len(variables))
  IN \A i \in 0..(numRows - 1) :
       LET rowValues == rowAssignment(variables, i)
       IN /\ ~evaluateThrows(e1, rowValues)
          /\ ~evaluateThrows(e2, rowValues)
          /\ evaluate(e1, rowValues) = evaluate(e2, rowValues)

InitTable ==
  /\ pc = "table"
  /\ expr \in Shallow
  /\ expr2 \in Shallow
  /\ applied = NoApplication
  /\ NoInput
  /\ NoSearch

\* generateTruthTable(expr) and analyzeTruthTable of the table.
GenerateTable ==
  /\ pc = "table"
  /\ applied' = [truthTable |-> generateTruthTable(expr),
                 analysis |-> analyzeTruthTable(generateTruthTable(expr))]
  /\ pc' = "tabled"
  /\ UNCHANGED <<expr, expr2, inputTokens, inputAssignment, searchVars, storeVars>>

\* areExpressionsEquivalent(expr, expr2) and the call with the arguments
\* exchanged.
CompareExpressions ==
  /\ pc = "table"
  /\ applied' = [equivalent |-> areExpressionsEquivalent(expr, expr2),
                 reversed |-> areExpressionsEquivalent(expr2, expr)]
  /\ pc' = "compared"
  /\ UNCHANGED <<expr, expr2, inputTokens, inputAssignment, searchVars, storeVars>>

NextTable == GenerateTable \/ CompareExpressions

SpecTable == InitTable /\ [][NextTable]_vars

\* The number whose binary numeral, high bit first, a row assignment
\* spells over the listed variables.
RECURSIVE RowNumber(_, _)
RowNumber(variables, rowValues) ==
  IF Len(variables) = 0 THEN 0
  ELSE 2 * RowNumber(SubSeq(variables, 1, Len(variables) - 1), rowValues)
       + (IF rowValues[variables[Len(variables)]] THEN 1 ELSE 0)

\* All assignments over exactly the given variables.
Assignments(names) == [names -> BOOLEAN]

(* C16: the table lists the variables of the expression sorted ascending,  *)
(* has 2^k rows, row i spells i in binary over the sorted variables (high  *)
(* bit first), and each row's result is the value of the expression under  *)
(* the row's assignment; a constant expression has exactly one row.        *)
C16_TruthTableEnumeration ==
  pc = "tabled" =>
    LET table == applied.truthTable
        k == Cardinality(getVariables(expr))
    IN /\ Len(table.variables) = k
       /\ Range(table.variables) = getVariables(expr)
       /\ \A j1, j2 \in 1..k :
            j1 < j2 => nameRank(table.variables[j1]) < nameRank(table.variables[j2])
       /\ Len(table.rows) = 2 ^ k
       /\ \A r \in 1..Len(table.rows) :
            /\ DOMAIN table.rows[r].assignment = getVariables(expr)
            /\ RowNumber(table.variables, table.rows[r].assignment) = r - 1
            /\ table.rows[r].result = evaluate(expr, table.rows[r].assignment)
       /\ k = 0 => Len(table.rows) = 1

C16_Witness ==
  /\ pc = "tabled"
  /\ expr = Conjunction(Variable("b"), Variable("a"))
  /\ Len(applied.truthTable.rows) = 4
  /\ applied.truthTable.rows[2].assignment = [a |-> FALSE, b |-> TRUE]

(* C17: satisfiableCount is the number of assignments over the variables   *)
(* of the expression that make it true; exactly one of isTautology,        *)
(* isContradiction, isContingent holds; satisfiableCount is 0 or totalRows *)
(* exactly when isContradiction or isTautology holds.                      *)
C17_TruthTableLaw ==
  pc = "tabled" =>
    LET analysis == applied.analysis
        flags == <<analysis.isTautology, analysis.isContradiction,
                   analysis.isContingent>>
    IN /\ analysis.satisfiableCount =
            Cardinality({sigma \in Assignments(getVariables(expr)) :
                           evaluate(expr, sigma)})
       /\ Cardinality({f \in 1..3 : flags[f]}) = 1
       /\ (analysis.satisfiableCount \in {0, analysis.totalRows})
            <=> (analysis.isContradiction \/ analysis.isTautology)

C17_Witness ==
  /\ pc = "tabled"
  /\ applied.analysis.isContingent
  /\ applied.analysis.totalRows = 4
  /\ applied.analysis.satisfiableCount = 3

(* C18: areExpressionsEquivalent returns true exactly when the two         *)
(* expressions have the same value under every assignment over the union   *)
(* of their variables, and gives the same answer with the arguments        *)
(* exchanged, also when the two variable sets differ.                      *)
C18_EquivalenceOracle ==
  pc = "compared" =>
    /\ applied.equivalent <=>
         \A sigma \in Assignments(getVariables(expr) \cup getVariables(expr2)) :
           evaluate(expr, sigma) = evaluate(expr2, sigma)
    /\ applied.equivalent = applied.reversed

C18_Witness ==
  /\ pc = "compared"
  /\ applied.equivalent
  /\ getVariables(expr) # getVariables(expr2)
  /\ getVariables(expr2) # {}
  /\ getVariables(expr) = {}

\* ---------------------------------------------------------------------------
\* Canonical strings: toString applied to constructed expressions.
\* ---------------------------------------------------------------------------

InitRender ==
  /\ expr \in RuleInputs
  /\ expr2 = Undefined
  /\ applied = Undefined
  /\ pc = "render"
  /\ NoInput
  /\ NoSearch

\* expression.toString()
Render ==
  /\ pc = "render"
  /\ applied' = [string |-> toString(expr)]
  /\ pc' = "rendered"
  /\ UNCHANGED <<expr, expr2, inputTokens, inputAssignment, searchVars, storeVars>>

NextRender == Render

SpecRender == InitRender /\ [][NextRender]_vars

\* An operand printed inside a larger expression: in parentheses or bare.
Operand(e, wrapped) ==
  IF wrapped THEN <<"(">> \o toString(e) \o <<")">> ELSE toString(e)

(* C19: toString of a negation prints its operand without parentheses when *)
(* the operand is a variable, a constant or a negation, and in parentheses *)
(* exactly when it is a binary operation; toString of a binary operation   *)
(* prints each operand in parentheses iff that operand is a binary         *)
(* operation.                                                              *)
C19_CanonicalOutput ==
  pc = "rendered" =>
    /\ isNegation(expr) =>
         applied.string =
           <<"!">> \o Operand(expr.expression, isBinaryOperation(expr.expression))
    /\ isBinaryOperation(expr) =>
         applied.string =
           Operand(expr.left, isBinaryOperation(expr.left))
             \o <<" ", getOperatorSymbol(expr), " ">>
             \o Operand(expr.right, isBinaryOperation(expr.right))

\* ---------------------------------------------------------------------------
\* Excluded middle and contradiction on complementary pairs.
\* ---------------------------------------------------------------------------

\* p | !p, !p | p, p & !p and !p & p for every shallow p, negations included.
ComplementaryPairs ==
  UNION {{Disjunction(p, Negation(p)), Disjunction(Negation(p), p),
          Conjunction(p, Negation(p)), Conjunction(Negation(p), p)} :
         p \in Shallow}

InitOrientations ==
  /\ pc = "rule"
  /\ expr \in ComplementaryPairs
  /\ expr2 = Undefined
  /\ applied = NoApplication
  /\ NoInput
  /\ NoSearch

SpecOrientations == InitOrientations /\ [][NextRules]_vars

(* C20: for every expression p, also a negation, ExcludedMiddle.canApply   *)
(* holds on p | !p and on !p | p and apply returns true, and               *)
(* Contradiction.canApply holds on p & !p and on !p & p and apply returns  *)
(* false.                                                                  *)
C20_BothOrientations ==
  pc = "applied" =>
    /\ (applied.rule = "ExcludedMiddle" /\ isDisjunction(expr)) =>
         applied.canApply /\ applied.out = TrueConstant
    /\ (applied.rule = "Contradiction" /\ isConjunction(expr)) =>
         applied.canApply /\ applied.out = FalseConstant

\* ---------------------------------------------------------------------------
\* Absorption: Simplification 2 on the four absorption patterns.
\* ---------------------------------------------------------------------------

\* p | (p & q), (p & q) | p, p & (p | q) and (p | q) & p.
AbsorptionPatterns(p, q) ==
  { Disjunction(p, Conjunction(p, q)), Disjunction(Conjunction(p, q), p),
    Conjunction(p, Disjunction(p, q)), Conjunction(Disjunction(p, q), p) }

\* expr is an absorption pattern over expr2 (the absorbing operand) and an
\* atom, with expr2 ranging over the shallow expressions, binary ones included.
InitAbsorption ==
  /\ pc = "rule"
  /\ expr2 \in Shallow
  /\ \E q \in Atoms : expr \in AbsorptionPatterns(expr2, q)
  /\ applied = NoApplication
  /\ NoInput
  /\ NoSearch

SpecAbsorption == InitAbsorption /\ [][NextRules]_vars

(* C21: for all expressions p and q, also when p is itself a conjunction   *)
(* or a disjunction, Simplification2Or applies to p | (p & q) and to       *)
(* (p & q) | p and returns p, and Simplification2And applies to            *)
(* p & (p | q) and to (p | q) & p and returns p.                           *)
C21_AbsorptionPatterns ==
  pc = "applied" =>
    /\ (applied.rule = "Simplification2Or" /\ isDisjunction(expr)) =>
         applied.canApply /\ applied.out = expr2
    /\ (applied.rule = "Simplification2And" /\ isConjunction(expr)) =>
         applied.canApply /\ applied.out = expr2

\* ---------------------------------------------------------------------------
\* One-rewrite proofs: searches with the default options whose target is one
\* rewrite away from the start.
\* ---------------------------------------------------------------------------

DefaultMaxExpressionLength == 15

\* The positions of e as paths from the root, the root first, then the
\* operand of a negation, or the left operand's positions before the right's.
RECURSIVE PositionsOf(_)
PositionsOf(e) ==
  LET under(step, sub) ==
        [i \in 1..Len(PositionsOf(sub)) |-> <<step>> \o PositionsOf(sub)[i]]
  IN << <<>> >> \o
     (IF isNegation(e) THEN under("inner", e.expression)
      ELSE IF isBinaryOperation(e)
      THEN under("left", e.left) \o under("right", e.right)
      ELSE <<>>)

\* The subexpression of e at a position.
RECURSIVE SubexpressionAt(_, _)
SubexpressionAt(e, path) ==
  IF path = <<>> THEN e
  ELSE CASE Head(path) = "inner" -> SubexpressionAt(e.expression, Tail(path))
         [] Head(path) = "left" -> SubexpressionAt(e.left, Tail(path))
         [] Head(path) = "right" -> SubexpressionAt(e.right, Tail(path))

\* e with the subexpression at a position replaced by x.
RECURSIVE ReplaceAt(_, _, _)
ReplaceAt(e, path, x) ==
  IF path = <<>> THEN x
  ELSE CASE Head(path) = "inner" ->
              Negation(ReplaceAt(e.expression, Tail(path), x))
         [] Head(path) = "left" ->
              [e EXCEPT !.left = ReplaceAt(e.left, Tail(path), x)]
         [] Head(path) = "right" ->
              [e EXCEPT !.right = ReplaceAt(e.right, Tail(path), x)]

\* Whether rule applied at the position of e yields t.
YieldsAt(e, path, rule, t) ==
  LET s == SubexpressionAt(e, path)
  IN /\ canApply(rule, s)
     /\ apply(rule, s) # Thrown
     /\ ReplaceAt(e, path, apply(rule, s)) = t

\* The rule of the first application yielding t: positions root first, and
\* at each position the rules in catalogue order.
FirstCitation(e, t) ==
  LET positions == PositionsOf(e)
      yielding(i) == {j \in 1..Len(ALL_TRANSFORMATION_RULES) :
                        YieldsAt(e, positions[i], ALL_TRANSFORMATION_RULES[j], t)}
      first == CHOOSE i \in 1..Len(positions) :
                 /\ yielding(i) # {}
                 /\ \A k \in 1..(i - 1) : yielding(k) = {}
  IN ALL_TRANSFORMATION_RULES[CHOOSE j \in yielding(first) :
                                \A k \in yielding(first) : j <= k]

\* Every expression one rule application at one position away from e.
OneRewriteTargets(e) == UNION {RewritesOf(e, rule) : rule \in RuleNames} \ {e}

\* a & (b & (a & ... )) over n operands, 2n - 1 nodes.
RECURSIVE ConjunctionChain(_)
ConjunctionChain(n) ==
  IF n = 1 THEN a
  ELSE Conjunction(IF n % 2 = 0 THEN b ELSE a, ConjunctionChain(n - 1))

\* A start expression of seventeen nodes, more than the default
\* maxExpressionLength; no rule makes it shorter.
LongStart == ConjunctionChain(9)

InitOneRewrite ==
  /\ SearchIdle
  /\ startExpression \in StartExprs \cup Shallow \cup {LongStart}
  /\ targetExpression \in OneRewriteTargets(startExpression)
  /\ opts = [maxDepth |-> DefaultMaxDepth, maxStates |-> DefaultMaxStates,
             maxExpressionLength |-> DefaultMaxExpressionLength,
             rules |-> ALL_TRANSFORMATION_RULES,
             onProgress |-> FALSE]

NextOneRewrite == Start \/ Iterate \/ Exhausted

SpecOneRewrite == InitOneRewrite /\ [][NextOneRewrite]_vars

\* The result of a one-rewrite proof: found, two steps, depth 1, citing the
\* first rule that yields the target.
OneRewriteProof ==
  /\ result.found
  /\ Len(result.steps) = 2
  /\ result.searchDepth = 1
  /\ result.steps[2].rule = FirstCitation(startExpression, targetExpression)
  /\ (startExpression = Negation(Conjunction(a, b))
      /\ targetExpression = Disjunction(Negation(a), Negation(b)))
       => result.steps[2].rule = "DeMorganAND"
  /\ (startExpression = Implication(a, b)
      /\ targetExpression = Implication(Negation(b), Negation(a)))
       => result.steps[2].rule = "Contrapositive"
  /\ (startExpression = Disjunction(a, Conjunction(a, b))
      /\ targetExpression = a)
       => result.steps[2].rule = "Simplification2Or"

(* C22, amended: with the full catalogue and the default budgets, whenever *)
(* the target is the result of one rule applied at one position of the     *)
(* start, differs from it and is no longer than maxExpressionLength, the   *)
(* search returns found with exactly two steps and searchDepth 1, citing   *)
(* the first rule (root first, then positions in root-first order, rules   *)
(* in catalogue order) whose application yields the target.                *)
C22_OneRewriteProofs ==
  (Returned /\ getLength(targetExpression) <= opts.maxExpressionLength)
    => OneRewriteProof

C22_Witness ==
  /\ Returned
  /\ startExpression = Negation(Conjunction(a, b))
  /\ targetExpression = Disjunction(Negation(a), Negation(b))
  /\ result.found
  /\ result.steps[2].rule = "DeMorganAND"

(* C22 as stated: the same for every target one rewrite away from the      *)
(* start, whatever its length.                                             *)
C22_AsStated == Returned => OneRewriteProof

\* ---------------------------------------------------------------------------
\* The rewrite driver on its own: one call of getAllPossibleTransformations.
\* ---------------------------------------------------------------------------

\* Values of maxLength around the sizes of the inputs and of their rewrites.
DriverLengths == {2, 4, 5, 7}

InitDriver ==
  /\ pc = "driver"
  /\ NoStore
  /\ expr \in RuleInputs
  /\ expr2 = Undefined
  /\ applied = NoApplication
  /\ NoInput
  /\ startExpression = Undefined
  /\ targetExpression = Undefined
  /\ \E length \in DriverLengths :
       opts = [maxDepth |-> 0, maxStates |-> 0,
               maxExpressionLength |-> length,
               rules |-> ALL_TRANSFORMATION_RULES,
               onProgress |-> FALSE]
  /\ queue = <<>>
  /\ visited = {}
  /\ statesExplored = 0
  /\ maxDepthReached = 0
  /\ result = Undefined
  /\ calls = 0
  /\ prevResult = Undefined
  /\ aborted = FALSE

\* getAllPossibleTransformations(expr, rules, maxLength)
GetTransformations ==
  /\ pc = "driver"
  /\ applied' = [transformations |->
                   getAllPossibleTransformations(expr, opts.rules,
                                                 opts.maxExpressionLength)]
  /\ pc' = "driven"
  /\ UNCHANGED <<expr, expr2, inputTokens, inputAssignment, searchVars, storeVars>>

NextDriver == GetTransformations

SpecDriver == InitDriver /\ [][NextDriver]_vars

\* The pairs (e', rule) with e' one application of rule, at any position of
\* e, of at most maxLength nodes.
AdmittedRewrites(e, rules, maxLength) ==
  UNION {{<<x, rules[i]>> :
            x \in {y \in RewritesOf(e, rules[i]) : getLength(y) <= maxLength}} :
         i \in DOMAIN rules}

(* C23: getAllPossibleTransformations(e, rules, maxLen) returns exactly    *)
(* the pairs (e', r) where e' is e with one subexpression, the root        *)
(* included, replaced by r.apply of it for a rule r that can apply, and    *)
(* size(e') <= maxLen: none is missed through the reduced budgets of the   *)
(* subexpressions and none returned is longer than maxLen.                 *)
C23_DriverExactness ==
  pc = "driven" =>
    LET returned == Range(applied.transformations)
    IN /\ {<<t.newExpression, t.rule>> : t \in returned}
            = AdmittedRewrites(expr, opts.rules, opts.maxExpressionLength)
       /\ \A t \in returned :
            getLength(t.newExpression) <= opts.maxExpressionLength

\* A rewrite below the root whose result has exactly maxLength nodes.
C23_Witness ==
  /\ pc = "driven"
  /\ isBinaryOperation(expr)
  /\ \E t \in Range(applied.transformations) :
       /\ t.appliedToSubexpression # expr
       /\ getLength(t.newExpression) = opts.maxExpressionLength
       /\ getLength(t.newExpression) > getLength(expr)

\* ---------------------------------------------------------------------------
\* The queue and the visited set during a search.
\* ---------------------------------------------------------------------------

\* Along the parent chain of a node the depth falls by one per link down to
\* the start node at depth 0, and no expression occurs twice.
ChainDescends(node) ==
  LET nodes == nodeChain(node)
  IN /\ nodes[1].depth = 0
     /\ nodes[1].expression = startExpression
     /\ \A i \in 2..Len(nodes) : nodes[i].depth = nodes[i - 1].depth + 1
     /\ \A i, j \in 1..Len(nodes) :
          i # j => getHash(nodes[i].expression) # getHash(nodes[j].expression)

\* The queued nodes have pairwise different hashes, all of them visited.
QueueDeduplicated ==
  /\ \A i \in 1..Len(queue) : getHash(queue[i].expression) \in visited
  /\ \A i, j \in 1..Len(queue) :
       i # j => getHash(queue[i].expression) # getHash(queue[j].expression)
  /\ \A i \in 1..Len(queue) : ChainDescends(queue[i])

\* A loop iteration keeps every visited hash, and a node it adds to the
\* queue has a hash that was not visited before.
EnqueuesOnlyNew ==
  /\ visited \subseteq visited'
  /\ \A i \in 1..Len(queue') :
       \/ queue'[i] \in Range(queue)
       \/ /\ getHash(queue'[i].expression) \notin visited
          /\ getHash(queue'[i].expression) \in visited'

(* C24: during one call every structural hash is put on the queue at most  *)
(* once: queued nodes have different hashes that are all visited, a hash   *)
(* once visited stays visited and only unvisited hashes are enqueued, so   *)
(* no expression is dequeued or expanded twice; the parent chain of every  *)
(* node repeats no expression and its depth falls by one per link down to  *)
(* the start node.                                                         *)
C24_VisitedDeduplication ==
  /\ [](pc = "loop" => QueueDeduplicated)
  /\ [][pc = "loop" => EnqueuesOnlyNew]_vars
  /\ []((Returned /\ result.found) =>
          \A i, j \in 1..Len(result.steps) :
            i # j => getHash(result.steps[i].expression)
                       # getHash(result.steps[j].expression))

\* A search that skipped an already visited rewrite and still has nodes of
\* two depths queued.
C24_Witness ==
  /\ pc = "loop"
  /\ Len(queue) >= 2
  /\ queue[Len(queue)].depth = 2
  /\ \E t \in Range(getAllPossibleTransformations(
                     queue[Len(queue)].parent.expression, opts.rules,
                     opts.maxExpressionLength)) :
       getHash(t.newExpression) = getHash(startExpression)

\* ---------------------------------------------------------------------------
\* The depth cut-off and the statistics of a search that finds nothing.
\* ---------------------------------------------------------------------------

\* The largest depth at which an exhaustive search expands a node: the
\* largest d below maxDepth at which a new expression is reached, and 0
\* when no node is expanded.
LargestExpandedDepth ==
  LET depths == {d \in 0..(opts.maxDepth - 1) :
                   ReachWithin(d) # ReachWithin(d - 1)}
  IN IF depths = {} THEN 0
     ELSE CHOOSE d \in depths : \A x \in depths : x <= d

\* A dequeued node at depth maxDepth or more is counted and not expanded,
\* and the loop goes on with the rest of the queue.
DepthCutOff ==
  (pc = "loop" /\ Len(queue) > 0) =>
    /\ statesExplored' = statesExplored + 1
    /\ (Head(queue).depth >= opts.maxDepth
        /\ statesExplored + 1 < opts.maxStates) =>
         /\ queue' = Tail(queue)
         /\ visited' = visited
         /\ maxDepthReached' = maxDepthReached
         /\ pc' = "loop"

\* The return on an empty queue, with the depth statistic as given.
ExhaustedReturn(depth) ==
  (pc = "loop" /\ Len(queue) = 0 /\ pc' = "done") =>
    /\ ~result'.found
    /\ result'.steps = <<>>
    /\ result'.totalStatesExplored = Cardinality(ReachWithin(opts.maxDepth))
    /\ depth

(* C25, amended: a dequeued node with depth >= maxDepth is counted but     *)
(* never expanded while the search goes on with the rest of the queue;     *)
(* when the queue is exhausted without a match the result is not found,    *)
(* has no steps, counts every dequeued node (every expression within       *)
(* maxDepth rewrites of the start) and has searchDepth equal to the        *)
(* largest depth of any expanded node, or 0 when no node was expanded;     *)
(* searchDepth < maxDepth whenever maxDepth >= 1.                          *)
C25_NotFoundStatistics ==
  /\ [][DepthCutOff]_vars
  /\ [][ExhaustedReturn(
          /\ result'.searchDepth = LargestExpandedDepth
          /\ opts.maxDepth >= 1 => result'.searchDepth < opts.maxDepth)]_vars

\* An exhausted search that dequeued nodes at depth maxDepth without
\* expanding them.
C25_Witness ==
  /\ Returned
  /\ ~result.found
  /\ Len(queue) = 0
  /\ opts.maxDepth = 1
  /\ result.totalStatesExplored >= 3
  /\ result.totalStatesExplored < opts.maxStates
  /\ result.totalStatesExplored = Cardinality(ReachWithin(1))

(* C25 as stated: on exhaustion searchDepth is the largest depth of any    *)
(* expanded node and hence below maxDepth, for every maxDepth.             *)
C25_AsStated ==
  [][ExhaustedReturn(
       /\ result'.searchDepth = LargestExpandedDepth
       /\ result'.searchDepth < opts.maxDepth)]_vars

\* ---------------------------------------------------------------------------
\* Variables: single rule applications next to whole searches.
\* ---------------------------------------------------------------------------

InitVariables == InitRules \/ Init

NextVariables == NextRules \/ Next

SpecVariables == InitVariables /\ [][NextVariables]_vars

(* C26: a rule that accepts an expression returns an expression whose      *)
(* variables all occur in the input; every expression the search enqueues  *)
(* or returns has its variables among those of the start expression; and   *)
(* a search whose target has a variable that does not occur in the start   *)
(* returns found=false, whatever the budgets.                              *)
C26_NoNewVariables ==
  /\ (pc = "applied" /\ applied.canApply) =>
       getVariables(applied.out) \subseteq getVariables(expr)
  /\ pc = "loop" =>
       \A i \in 1..Len(queue) :
         getVariables(queue[i].expression)
           \subseteq getVariables(startExpression)
  /\ (Returned
      /\ ~(getVariables(targetExpression)
             \subseteq getVariables(startExpression))) =>
       ~result.found

\* The search from a to b, run to the end of its queue.
C26_Witness ==
  /\ Returned
  /\ startExpression = a
  /\ targetExpression = b
  /\ ~result.found
  /\ result.totalStatesExplored >= 3
  /\ Len(queue) = 0

(* C27: every step of a found proof holds an expression equivalent to the  *)
(* start expression under areExpressionsEquivalent, the target included:   *)
(* no proof is reported between expressions whose truth tables differ.     *)
C27_ProofsAreEquivalences ==
  (Returned /\ result.found) =>
    /\ \A i \in 1..Len(result.steps) :
         areExpressionsEquivalent(startExpression, result.steps[i].expression)
    /\ areExpressionsEquivalent(startExpression, targetExpression)

\* A proof of three or more steps between expressions that differ.
C27_Witness ==
  /\ Returned
  /\ result.found
  /\ Len(result.steps) >= 3
  /\ getVariables(startExpression) # getVariables(targetExpression)
  /\ areExpressionsEquivalent(startExpression, targetExpression)

(* C28: every node on the queue other than the start node, and every step  *)
(* after the first of a returned proof, holds an expression of at most     *)
(* maxExpressionLength nodes, also when the start expression is longer.    *)
C28_FrontierLength ==
  /\ \A i \in 1..Len(queue) :
       queue[i].parent # NullNode =>
         getLength(queue[i].expression) <= opts.maxExpressionLength
  /\ (Returned /\ result.found) =>
       \A i \in 2..Len(result.steps) :
         getLength(result.steps[i].expression) <= opts.maxExpressionLength

\* A proof of several steps from a start longer than maxExpressionLength.
C28_Witness ==
  /\ Returned
  /\ result.found
  /\ getLength(startExpression) > opts.maxExpressionLength
  /\ Len(result.steps) >= 3

\* ---------------------------------------------------------------------------
\* The parser on an input and on the same input in one more pair of
\* parentheses.
\* ---------------------------------------------------------------------------

\* The tokens with one pair of parentheses around them.
Wrapped(tokens) == <<"(">> \o tokens \o <<")">>

\* Steps 2 and 3 of parseToExpression on the tokens and on the wrapped tokens.
ParseWrapped ==
  /\ pc = "parse"
  /\ expr' = parseTokens(inputTokens)
  /\ expr2' = parseTokens(Wrapped(inputTokens))
  /\ pc' = "wrapped"
  /\ UNCHANGED <<applied, inputTokens, inputAssignment, searchVars, storeVars>>

NextWrap == ParseWrapped

SpecWrap == InitParse /\ [][NextWrap]_vars

(* C29: for every input that parses, the same input in one more pair of    *)
(* outer parentheses parses to a structurally equal expression; a chain of *)
(* operators inside a parenthesized group associates as it does at top     *)
(* level.                                                                  *)
C29_ParenthesesKeepMeaning ==
  (pc = "wrapped" /\ expr # Thrown) => (expr2 # Thrown /\ Equals(expr2, expr))

\* ---------------------------------------------------------------------------
\* The app store (useAppStore): the expressions, the rule selection and the
\* proof search started by searchForProof and finished by a timer.  Of the
\* store's state the model keeps the fields the proof search and the truth
\* table read or write; the strings, the error messages, the history and
\* the display settings are left out.  An event handler, and the timer
\* callback with the continuation that follows it, run to their end before
\* the next one starts.
\* ---------------------------------------------------------------------------

Null == [kind |-> "null"]

\* The maxProofDepth of initialState.
InitialMaxProofDepth == 15

initialState ==
  [currentExpression |-> Null,
   targetExpression |-> Null,
   truthTable |-> Null,
   currentProof |-> Null,
   isSearchingProof |-> FALSE,
   proofSearchProgress |-> Null,
   selectedRules |-> RuleNames,
   maxProofDepth |-> InitialMaxProofDepth,
   autoGenerateTruthTable |-> TRUE]

\* expr.trim() on a string of lexemes.
RECURSIVE trim(_)
trim(string) ==
  IF string # <<>> /\ Head(string) = " " THEN trim(Tail(string))
  ELSE IF string # <<>> /\ string[Len(string)] = " "
  THEN trim(SubSeq(string, 1, Len(string) - 1))
  ELSE string

\* generateTruthTableForCurrent on the store after an update.
generateTruthTableForCurrent(state) ==
  IF state.currentExpression # Null
  THEN [state EXCEPT !.truthTable = generateTruthTable(state.currentExpression)]
  ELSE state

\* The strings typed into the expression fields.
ExpressionStrings ==
  { <<>>, <<"a", " ", "&", " ", "b">>, <<" ", "b", " ", "&", " ", "a">>,
    <<"a", " ", "&">> }

\* The rules toggled in the rule list.
ToggledRules == {"DoubleNegation"}

\* The number of searchForProof calls in one run.
MaxStoreSearches == 2

InitStore ==
  /\ pc = "idle"
  /\ store = initialState
  /\ timers = <<>>
  /\ proofClosure = Undefined
  /\ expr = Undefined
  /\ expr2 = Undefined
  /\ applied = NoApplication
  /\ NoInput
  /\ startExpression = Undefined
  /\ targetExpression = Undefined
  /\ opts = [maxDepth |-> 0, maxStates |-> 0, maxExpressionLength |-> 0,
             rules |-> <<>>, onProgress |-> FALSE]
  /\ queue = <<>>
  /\ visited = {}
  /\ statesExplored = 0
  /\ maxDepthReached = 0
  /\ result = Undefined
  /\ calls = 0
  /\ prevResult = Undefined
  /\ aborted = FALSE

setCurrentExpression(string) ==
  /\ pc = "idle"
  /\ \E trimmedExpr \in {trim(string)} :
       \E parsedExpression \in {parseToExpression(trimmedExpr)} :
         IF trimmedExpr = <<>> \/ parsedExpression = Thrown
         THEN store' = [store EXCEPT !.currentExpression = Null,
                                     !.truthTable = Null,
                                     !.currentProof = Null]
         ELSE \E updated \in {[store EXCEPT
                                 !.currentExpression = parsedExpression,
                                 !.currentProof = Null]} :
                store' = IF store.autoGenerateTruthTable
                         THEN generateTruthTableForCurrent(updated)
                         ELSE updated
  /\ UNCHANGED <<pc, timers, proofClosure, ruleVars, searchVars>>

setTargetExpression(string) ==
  /\ pc = "idle"
  /\ \E trimmedExpr \in {trim(string)} :
       \E parsedExpression \in {parseToExpression(trimmedExpr)} :
         store' =
           IF trimmedExpr = <<>> \/ parsedExpression = Thrown
           THEN [store EXCEPT !.targetExpression = Null,
                              !.currentProof = Null]
           ELSE [store EXCEPT !.targetExpression = parsedExpression,
                              !.currentProof = Null]
  /\ UNCHANGED <<pc, timers, proofClosure, ruleVars, searchVars>>

toggleRule(ruleName) ==
  /\ pc = "idle"
  /\ store' = [store EXCEPT
                 !.selectedRules =
                   IF ruleName \in store.selectedRules
                   THEN store.selectedRules \ {ruleName}
                   ELSE store.selectedRules \cup {ruleName},
                 !.currentProof = Null]
  /\ UNCHANGED <<pc, timers, proofClosure, ruleVars, searchVars>>

\* searchForProof up to its await: the values read from the store stay in
\* the closure of the timer callback.  Without a current or a target
\* expression the call returns at once and changes nothing.
searchForProof ==
  /\ pc = "idle"
  /\ calls + Len(timers) < MaxStoreSearches
  /\ store.currentExpression # Null
  /\ store.targetExpression # Null
  /\ store' = [store EXCEPT !.isSearchingProof = TRUE,
                            !.proofSearchProgress = Null,
                            !.currentProof = Null]
  /\ timers' = Append(timers,
                      [currentExpression |-> store.currentExpression,
                       targetExpression |-> store.targetExpression,
                       selectedRules |-> store.selectedRules,
                       maxProofDepth |-> store.maxProofDepth,
                       cancelled |-> FALSE])
  /\ UNCHANGED <<pc, proofClosure, ruleVars, searchVars>>

\* cancelProofSearch.  The cancelled field of a closure records, for the
\* claim below, that the store was told to cancel while it was pending.
cancelProofSearch ==
  /\ pc = "idle"
  /\ store' = [store EXCEPT !.isSearchingProof = FALSE,
                            !.proofSearchProgress = Null]
  /\ timers' = [i \in 1..Len(timers) |-> [timers[i] EXCEPT !.cancelled = TRUE]]
  /\ UNCHANGED <<pc, proofClosure, ruleVars, searchVars>>

\* The timer callback of the oldest pending search calls
\* findTransformationProof with the values of its closure.
timerFires ==
  /\ pc = "idle"
  /\ timers # <<>>
  /\ startExpression' = Head(timers).currentExpression
  /\ targetExpression' = Head(timers).targetExpression
  /\ opts' = [maxDepth |-> Head(timers).maxProofDepth,
              maxStates |-> DefaultMaxStates,
              maxExpressionLength |-> DefaultMaxExpressionLength,
              rules |-> filterRules(ALL_TRANSFORMATION_RULES,
                                    Head(timers).selectedRules),
              onProgress |-> FALSE]
  /\ result' = Undefined
  /\ pc' = "start"
  /\ UNCHANGED <<queue, visited, statesExplored, maxDepthReached, calls,
                 prevResult, aborted, ruleVars, storeVars>>

\* The promise resolves and searchForProof goes on after its await: the
\* proof is stored.
proofResolved ==
  /\ pc = "done"
  /\ timers # <<>>
  /\ store' = [store EXCEPT !.currentProof = result,
                            !.isSearchingProof = FALSE,
                            !.proofSearchProgress = Null]
  /\ proofClosure' = Head(timers)
  /\ timers' = Tail(timers)
  /\ pc' = "idle"
  /\ UNCHANGED <<ruleVars, searchVars>>

NextStore ==
  \/ \E string \in ExpressionStrings : setCurrentExpression(string)
  \/ \E string \in ExpressionStrings : setTargetExpression(string)
  \/ \E ruleName \in ToggledRules : toggleRule(ruleName)
  \/ searchForProof
  \/ cancelProofSearch
  \/ timerFires
  \/ Start
  \/ Iterate
  \/ proofResolved

SpecStore == InitStore /\ [][NextStore]_vars

\* The stored proof was computed from what the store holds now.
ProofIsCurrent ==
  store.currentProof # Null =>
    /\ proofClosure.currentExpression = store.currentExpression
    /\ proofClosure.targetExpression = store.targetExpression
    /\ proofClosure.selectedRules = store.selectedRules

\* The end of a search that was cancelled while pending leaves the proof
\* and the searching flag of the store as they are.
CancelledStaysSilent ==
  (pc = "done" /\ timers # <<>> /\ Head(timers).cancelled) =>
    /\ store'.currentProof = store.currentProof
    /\ store'.isSearchingProof = store.isSearchingProof

(* C30: under every interleaving of searchForProof, its delayed            *)
(* completion, cancelProofSearch, setCurrentExpression,                    *)
(* setTargetExpression and toggleRule, a non-null currentProof was         *)
(* computed from the currentExpression, the targetExpression and the       *)
(* selected rules now in the store, and a search cancelled by              *)
(* cancelProofSearch never stores its result nor changes isSearchingProof. *)
C30_NoStaleProof ==
  /\ [](pc \in {"idle", "start", "loop", "done"} => ProofIsCurrent)
  /\ [][CancelledStaysSilent]_vars

====
